---------------------------- MODULE Spec2Model ----------------------------
(***************************************************************************)
(* LIHEAP data-engineering pipeline (notebooks/pipeline/01 .. 06).         *)
(*                                                                         *)
(* Texts are sequences of one-character strings, so that the cleaning      *)
(* functions (strip, regex replace, regex extract, zfill, upper) are       *)
(* computed character by character as pandas computes them.  A cell of a   *)
(* spreadsheet or of a DataFrame is a tagged record:                       *)
(*   NaN          a missing value (numpy nan / pandas NA / NaT)            *)
(*   None         Python None                                              *)
(*   I(n)         a Python/numpy integer n                                 *)
(*   F(c)         a float, held in hundredths: F(9210100) is 92101.0       *)
(*   S(s)         a str, s a sequence of characters                        *)
(*   D(y, m, d)   a Timestamp                                              *)
(* A table (DataFrame, sheet) is a sequence of rows, a row a record.       *)
(***************************************************************************)
EXTENDS Integers, Sequences, FiniteSets, TLC

VARIABLES
    \* ---- stage 1: LiheapPipeline (01_combine_liheap_data.py) ----
    excel_files,        \* the files under data_folder, sorted by name
    geonames_file,      \* content of data_geonames/US.txt, or NaN when absent
    start_year_month,   \* LiheapPipeline.start_year_month (a text or None)
    end_year_month,     \* LiheapPipeline.end_year_month (a text or None)
    pc,                 \* position of the current run in LiheapPipeline.run
    file_idx,           \* loop index of load_and_normalize_all_files
    header_rows,        \* detect_header_row's result for each file read so far
    normalized_dfs,     \* load_and_normalize_all_files.normalized_dfs
    skipped_files,      \* LiheapPipeline.skipped_files
    df_all,             \* the DataFrame handed from step to step in run
    removed,            \* "Deduplication removed N duplicate rows"
    http_ok,            \* outcome of the GeoNames HTTP fetch of this run
    local_tried,        \* whether this run read data_geonames/US.txt
    internal_zip_city,  \* fill_missing_cities: the internal ZIP -> city mapping
    external_zip_city,  \* fill_missing_cities: what load_geonames_zip_city returned
    combined_output,    \* file COMBINED_OUTPUT on disk (NaN: not written)
    final_output,       \* file FINAL_OUTPUT on disk (NaN: not written)
    runs,               \* number of runs of the script started so far
    checksums,          \* test_reproducibility.py: the checksum seen after each run
    \* ---- stages 2, 3, 5, 6 (02 .. 06 scripts) ----
    pcJ,                \* which script of the chain runs next
    liheap_clean,       \* stage 2: the sheet LIHEAP_Data of INPUT_FILE
    liheap_zip_year,    \* stage 2 output file (dataliheap_zip_year_sanity_check)
    df_income,          \* stage 3: ACS income table as read
    df_population,      \* stage 3: ACS population table as read
    liheap_acs,         \* stage 3 output file (liheap_acs_combined)
    df_bls,             \* stage 5: BLS annual table as read (first sheet of BLS_PATH)
    df_bls_clean,       \* stage 5: df_bls_clean of STEP 2
    df_xw,              \* stage 5: HUD crosswalk as read
    df_zip_primary,     \* stage 5: dominant-county assignment
    df_zip_unemp,       \* stage 5 output file (ca_zip_unemployment_annual_option1)
    df_final,           \* stage 6 output file (liheap_full_combined)
    \* ---- stage 4 (04_etl_bls_laus_profile_to_annual.py) ----
    pcB,                \* position of the run of the stage-4 script
    xls,                \* the sheets of BLS_PROFILE_XLSX, each read with header=None
    sheet_idx,          \* loop index over xls.sheet_names
    annual_rows,        \* main.annual_rows: one annual table per processed sheet
    processed_sheets,   \* main.processed_sheets
    skipped_no_table,   \* main.skipped_no_table
    skipped_no_value_col,   \* main.skipped_no_value_col
    annual,             \* main.annual: the concatenated annual tables
    annual_full,        \* sheet Full_Years_2023_2024 of OUT_ANNUAL_COMBINED
    annual_ytd          \* sheet YTD_2025 of OUT_ANNUAL_COMBINED

varsNorm == <<excel_files, geonames_file, start_year_month, end_year_month, pc,
              file_idx, header_rows, normalized_dfs, skipped_files, df_all,
              removed, http_ok, local_tried, internal_zip_city, external_zip_city, combined_output, final_output, runs, checksums>>
varsJoin == <<pcJ, liheap_clean, liheap_zip_year, df_income, df_population, liheap_acs,
              df_bls, df_bls_clean, df_xw, df_zip_primary, df_zip_unemp, df_final>>
varsBls == <<pcB, xls, sheet_idx, annual_rows, processed_sheets, skipped_no_table,
             skipped_no_value_col, annual, annual_full, annual_ytd>>
vars == <<varsNorm, varsJoin, varsBls>>

----------------------------------------------------------------------------
(* Cells *)

NaN == [t |-> "nan"]
None == [t |-> "none"]
I(n) == [t |-> "int", n |-> n]
F(c) == [t |-> "float", c |-> c]
S(s) == [t |-> "str", s |-> s]
D(y, m, d) == [t |-> "date", y |-> y, m |-> m, d |-> d]

\* pd.isna / Series.isna
isna(v) == v.t \in {"nan", "none"}

----------------------------------------------------------------------------
(* Characters and texts *)

DigitChars == <<"0", "1", "2", "3", "4", "5", "6", "7", "8", "9">>
UpperChars == <<"A", "B", "C", "D", "E", "F", "G", "H", "I", "J", "K", "L", "M",
                "N", "O", "P", "Q", "R", "S", "T", "U", "V", "W", "X", "Y", "Z">>
LowerChars == <<"a", "b", "c", "d", "e", "f", "g", "h", "i", "j", "k", "l", "m",
                "n", "o", "p", "q", "r", "s", "t", "u", "v", "w", "x", "y", "z">>
\* The characters of the model in code-point order (Python compares str by code point).
CodePointOrder == <<"\t", " ", "$", "(", ")", ",", "-", ".", "/">> \o DigitChars
                  \o <<":">> \o UpperChars \o <<"[", "]", "_">> \o LowerChars

Range(s) == {s[i] : i \in DOMAIN s}
IsDigit(c) == c \in Range(DigitChars)
IsAlpha(c) == c \in Range(UpperChars) \cup Range(LowerChars)
IsSpace(c) == c \in {" ", "\t"}
Ord(c) == CHOOSE i \in DOMAIN CodePointOrder : CodePointOrder[i] = c
DigitVal(c) == (CHOOSE i \in DOMAIN DigitChars : DigitChars[i] = c) - 1

\* str < str in Python: lexicographic by code point, a proper prefix first
RECURSIVE StrLess(_, _)
StrLess(a, b) ==
    IF b = <<>> THEN FALSE
    ELSE IF a = <<>> THEN TRUE
    ELSE IF a[1] = b[1] THEN StrLess(Tail(a), Tail(b))
    ELSE Ord(a[1]) < Ord(b[1])
StrLeq(a, b) == a = b \/ StrLess(a, b)

\* str(int) for n >= 0
RECURSIVE IntToStr(_)
IntToStr(n) ==
    IF n < 10 THEN <<DigitChars[n + 1]>>
    ELSE IntToStr(n \div 10) \o <<DigitChars[(n % 10) + 1]>>

\* str(float) for a non-negative float held in hundredths: 92101.0, 1234.56, 100.5
FloatToStr(c) ==
    LET whole == IntToStr(c \div 100)
        h == c % 100
    IN  whole \o <<".">> \o
        (IF h % 10 = 0 THEN <<DigitChars[(h \div 10) + 1]>>
         ELSE <<DigitChars[(h \div 10) + 1], DigitChars[(h % 10) + 1]>>)

\* str(v) / Series.astype(str) of one cell (object dtype, pandas 2.x: nan -> "nan")
astype_str(v) ==
    CASE v.t = "nan" -> <<"n", "a", "n">>
      [] v.t = "none" -> <<"N", "o", "n", "e">>
      [] v.t = "int" -> IntToStr(v.n)
      [] v.t = "float" -> FloatToStr(v.c)
      [] v.t = "str" -> v.s
      [] v.t = "date" ->
            IntToStr(v.y) \o <<"-">> \o (IF v.m < 10 THEN <<"0">> ELSE <<>>) \o IntToStr(v.m)
            \o <<"-">> \o (IF v.d < 10 THEN <<"0">> ELSE <<>>) \o IntToStr(v.d)

\* str.strip()
RECURSIVE lstrip(_)
lstrip(s) == IF s # <<>> /\ IsSpace(s[1]) THEN lstrip(Tail(s)) ELSE s
RECURSIVE rstrip(_)
rstrip(s) == IF s # <<>> /\ IsSpace(s[Len(s)]) THEN rstrip(SubSeq(s, 1, Len(s) - 1)) ELSE s
strip(s) == rstrip(lstrip(s))

\* str.upper()
UpperChar(c) ==
    IF c \in Range(LowerChars)
    THEN UpperChars[CHOOSE i \in DOMAIN LowerChars : LowerChars[i] = c]
    ELSE c
upper(s) == [i \in DOMAIN s |-> UpperChar(s[i])]

\* str.zfill(width): left pad with "0" (the texts here carry no sign)
RECURSIVE zfill(_, _)
zfill(s, width) == IF Len(s) >= width THEN s ELSE zfill(<<"0">> \o s, width)

\* str.contains(r"[A-Za-z]")
contains_alpha(s) == \E i \in DOMAIN s : IsAlpha(s[i])

\* str.replace(r"\.0$", "", regex=True)
strip_dot_zero(s) ==
    IF Len(s) >= 2 /\ s[Len(s) - 1] = "." /\ s[Len(s)] = "0"
    THEN SubSeq(s, 1, Len(s) - 2)
    ELSE s

\* missing / blank / "NAN" test used for Zip_Code and City
\* (isna() | astype(str).str.strip().eq("") | ...str.upper().eq("NAN"))
is_missing_text(v) ==
    \/ isna(v)
    \/ strip(astype_str(v)) = <<>>
    \/ upper(strip(astype_str(v))) = <<"N", "A", "N">>

----------------------------------------------------------------------------
(* Field cleaners of stage 1 *)

\* an extraction that takes the last run of 5 digits
extract_last_5_digits(s) ==
    LET hits == {i \in 1..(Len(s) - 4) : \A k \in 0..4 : IsDigit(s[i + k])}
    IN  IF hits = {} THEN NaN
        ELSE LET i == CHOOSE j \in hits : \A k \in hits : j >= k
             IN  S(SubSeq(s, i, i + 4))

\* str.extract(r"(\d{5})"): the leftmost run of 5 digits, NaN when there is none
extract_5_digits(s) ==
    LET hits == {i \in 1..(Len(s) - 4) : \A k \in 0..4 : IsDigit(s[i + k])}
    IN  IF hits = {} THEN NaN
        ELSE LET i == CHOOSE j \in hits : \A k \in hits : j <= k
             IN  S(SubSeq(s, i, i + 4))

\* clean_zip, for one value of the Series
clean_zip(v) ==
    LET x == extract_5_digits(strip_dot_zero(astype_str(v)))
    IN  IF isna(x) THEN NaN ELSE S(zfill(x.s, 5))

RECURSIVE DigitsToInt(_)
DigitsToInt(s) ==
    IF s = <<>> THEN 0 ELSE 10 * DigitsToInt(SubSeq(s, 1, Len(s) - 1)) + DigitVal(s[Len(s)])

IsLeap(y) == (y % 4 = 0 /\ y % 100 # 0) \/ y % 400 = 0
DaysIn(y, m) ==
    IF m = 2 THEN (IF IsLeap(y) THEN 29 ELSE 28)
    ELSE IF m \in {4, 6, 9, 11} THEN 30 ELSE 31
ValidDate(y, m, d) == y >= 1 /\ m \in 1..12 /\ d >= 1 /\ d <= DaysIn(y, m)

\* pd.to_datetime(str(int(value)), format="%Y%m%d") under try/except -> NaT.
\* Modelled for texts of 8 digits (YYYYMMDD) and of fewer than 6 digits (no match).
strptime_Ymd(s) ==
    IF Len(s) = 8 /\ \A i \in DOMAIN s : IsDigit(s[i])
    THEN LET y == DigitsToInt(SubSeq(s, 1, 4))
             m == DigitsToInt(SubSeq(s, 5, 6))
             d == DigitsToInt(SubSeq(s, 7, 8))
         IN  IF ValidDate(y, m, d) THEN D(y, m, d) ELSE NaN
    ELSE NaN

\* pd.to_datetime(text, errors="coerce"): modelled for ISO texts YYYY-MM-DD;
\* every other text of the model carries no date and is coerced to NaT.
to_datetime_coerce(s) ==
    IF /\ Len(s) = 10
       /\ s[5] = "-" /\ s[8] = "-"
       /\ \A i \in {1, 2, 3, 4, 6, 7, 9, 10} : IsDigit(s[i])
    THEN LET y == DigitsToInt(SubSeq(s, 1, 4))
             m == DigitsToInt(SubSeq(s, 6, 7))
             d == DigitsToInt(SubSeq(s, 9, 10))
         IN  IF ValidDate(y, m, d) THEN D(y, m, d) ELSE NaN
    ELSE NaN

\* parse_date
parse_date(v) ==
    IF isna(v) THEN NaN
    ELSE IF v.t = "int" THEN strptime_Ymd(IntToStr(v.n))
    ELSE IF v.t = "float" THEN strptime_Ymd(IntToStr(v.c \div 100))
    ELSE IF v.t = "date" THEN v
    ELSE to_datetime_coerce(v.s)

\* Created_On.dt.to_period("M").astype(str): "YYYY-MM", and "NaT" for NaT
YearMoOf(created_on) ==
    IF created_on.t = "date"
    THEN zfill(IntToStr(created_on.y), 4) \o <<"-">> \o zfill(IntToStr(created_on.m), 2)
    ELSE <<"N", "a", "T">>

\* str.replace(r"[^0-9.\-]", "", regex=True)
keep_numeric_chars(s) == SelectSeq(s, LAMBDA c : IsDigit(c) \/ c \in {".", "-"})

\* pd.to_numeric(text, errors="coerce") for a text of digits, "." and "-":
\* [-] digits [. digits] with a digit somewhere; the value is held in hundredths
\* (the amounts of the model carry at most two decimals).
to_numeric_coerce(s) ==
    LET neg == s # <<>> /\ s[1] = "-"
        body == IF neg THEN Tail(s) ELSE s
        dots == {i \in DOMAIN body : body[i] = "."}
        dot == IF dots = {} THEN Len(body) + 1 ELSE CHOOSE i \in dots : TRUE
        whole == SubSeq(body, 1, dot - 1)
        frac == SubSeq(body, dot + 1, Len(body))
        wellformed ==
            /\ \A i \in DOMAIN body : body[i] # "-"
            /\ Cardinality(dots) <= 1
            /\ Len(whole) + Len(frac) >= 1
            /\ Len(frac) <= 2
        cents == 100 * DigitsToInt(whole)
                 + (IF Len(frac) = 1 THEN 10 * DigitsToInt(frac) ELSE DigitsToInt(frac))
    IN  IF wellformed THEN F(IF neg THEN 0 - cents ELSE cents) ELSE NaN

\* a cleaner that keeps digits and dots only
clean_pledge_amount_unsigned(v) ==
    to_numeric_coerce(SelectSeq(astype_str(v), LAMBDA c : IsDigit(c) \/ c = "."))

\* clean_pledge_amount, for one value of the Series
clean_pledge_amount(v) == to_numeric_coerce(keep_numeric_chars(astype_str(v)))

----------------------------------------------------------------------------
(* Stage 1, step 1: header detection and column normalization *)

\* the canonical column names, as texts
ColCity == <<"C", "i", "t", "y">>
ColZip_Code == <<"Z", "i", "p", "_", "C", "o", "d", "e">>
ColCreated_On == <<"C", "r", "e", "a", "t", "e", "d", "_", "O", "n">>
ColPledge_Amount == <<"P", "l", "e", "d", "g", "e", "_", "A", "m", "o", "u", "n", "t">>

\* COLUMN_MAPPING: <<raw spelling, canonical name>>
COLUMN_MAPPING == {
    <<<<"C", "V", "_", "E", "n", "e", "r", "g", "y", "A", "s", "s", "i", "s", "t", "a", "n", "c", "e", "[", "C", "i", "t", "y", "(", "S", "e", "r", "v", "i", "c", "e", " ", "A", "d", "d", "r", "e", "s", "s", ")", "]">>,
      ColCity>>,
    <<<<"S", "e", "r", "v", "i", "c", "e", " ", "C", "i", "t", "y">>,
      ColCity>>,
    <<<<"C", "i", "t", "y">>,
      ColCity>>,
    <<<<"C", "V", "_", "E", "n", "e", "r", "g", "y", "A", "s", "s", "i", "s", "t", "a", "n", "c", "e", "[", "P", "o", "s", "t", " ", "C", "o", "d", "e", " ", "(", "S", "e", "r", "v", "i", "c", "e", " ", "A", "d", "d", "r", "e", "s", "s", ")", "]">>,
      ColZip_Code>>,
    <<<<"C", "V", "_", "E", "n", "e", "r", "g", "y", "A", "s", "s", "i", "s", "t", "a", "n", "c", "e", "[", "Z", "i", "p", "c", "o", "d", "e", " ", "(", "B", "u", "s", "i", "n", "e", "s", "s", " ", "P", "a", "r", "t", "n", "e", "r", " ", "A", "d", "d", "r", "e", "s", "s", ")", "]">>,
      ColZip_Code>>,
    <<<<"Z", "i", "p", "c", "o", "d", "e", " ", "(", "B", "u", "s", "i", "n", "e", "s", "s", " ", "P", "a", "r", "t", "n", "e", "r", " ", "A", "d", "d", "r", "e", "s", "s", ")">>,
      ColZip_Code>>,
    <<<<"Z", "i", "p", " ", "C", "o", "d", "e">>,
      ColZip_Code>>,
    <<<<"Z", "I", "P">>,
      ColZip_Code>>,
    <<<<"Z", "i", "p", "_", "C", "o", "d", "e">>,
      ColZip_Code>>,
    <<<<"C", "V", "_", "E", "n", "e", "r", "g", "y", "A", "s", "s", "i", "s", "t", "a", "n", "c", "e", "[", "c", "r", "e", "a", "t", "e", "d", " ", "O", "n", " ", "(", "P", "l", "e", "d", "g", "e", " ", "D", "e", "t", "a", "i", "l", "s", ")", "]">>,
      ColCreated_On>>,
    <<<<"C", "V", "_", "E", "n", "e", "r", "g", "y", "A", "s", "s", "i", "s", "t", "a", "n", "c", "e", "[", "C", "r", "e", "a", "t", "e", "d", " ", "O", "n", " ", "(", "P", "l", "e", "d", "g", "e", " ", "D", "e", "t", "a", "i", "l", "s", ")", "]">>,
      ColCreated_On>>,
    <<<<"C", "V", "_", "E", "n", "e", "r", "g", "y", "A", "s", "s", "i", "s", "t", "a", "n", "c", "e", "[", "C", "r", "e", "a", "t", "e", "d", " ", "o", "n", " ", "(", "M", "M", "/", "D", "D", "/", "Y", "Y", "Y", "Y", ")", "]">>,
      ColCreated_On>>,
    <<<<"C", "V", "_", "E", "n", "e", "r", "g", "y", "A", "s", "s", "i", "s", "t", "a", "n", "c", "e", "[", "C", "r", "e", "a", "t", "e", "d", " ", "O", "n", " ", "(", "P", "L", ")", "]">>,
      ColCreated_On>>,
    <<<<"C", "r", "e", "a", "t", "e", "d", "_", "O", "n">>,
      ColCreated_On>>,
    <<<<"C", "r", "e", "a", "t", "e", "d", " ", "O", "n">>,
      ColCreated_On>>,
    <<<<"[", "P", "l", "e", "d", "g", "e", "_", "A", "m", "o", "u", "n", "t", "]">>,
      ColPledge_Amount>>,
    <<<<"P", "l", "e", "d", "g", "e", " ", "A", "m", "o", "u", "n", "t">>,
      ColPledge_Amount>>,
    <<<<"P", "l", "e", "d", "g", "e", "_", "A", "m", "o", "u", "n", "t">>,
      ColPledge_Amount>>,
    <<<<"C", "V", "_", "E", "n", "e", "r", "g", "y", "A", "s", "s", "i", "s", "t", "a", "n", "c", "e", "[", "P", "l", "e", "d", "g", "e", " ", "A", "m", "o", "u", "n", "t", "]">>,
      ColPledge_Amount>>
}

REQUIRED_STRICT == <<ColZip_Code, ColCreated_On, ColPledge_Amount>>
OPTIONAL_COLS == <<ColCity>>

\* detect_header_row's default max_rows
max_rows == 10

Min(a, b) == IF a <= b THEN a ELSE b

\* pd.read_excel(file, header=None, nrows=max_rows): the first rows of the sheet
head_rows(grid, n) == SubSeq(grid, 1, Min(n, Len(grid)))

\* row.str.contains(r"[A-Za-z]").sum() after row = tmp.iloc[i].astype(str)
has_alpha(row) == Cardinality({j \in DOMAIN row : contains_alpha(astype_str(row[j]))})

\* row.notna().sum(), of the row already converted with astype(str):
\* no cell of it is missing any more
non_null(row) == Cardinality({j \in DOMAIN row : ~isna(S(astype_str(row[j])))})

\* the test of one row in detect_header_row
looks_like_header(row) == non_null(row) >= 3 /\ has_alpha(row) >= 2

\* detect_header_row (0-based row index)
detect_header_row(grid) ==
    LET tmp == head_rows(grid, max_rows)
        hits == {i \in 0..(Min(max_rows, Len(tmp)) - 1) : looks_like_header(tmp[i + 1])}
    IN  IF hits = {} THEN 0 ELSE CHOOSE i \in hits : \A k \in hits : i <= k

\* str.replace(r"\s+", " ", regex=True)
RECURSIVE collapse_spaces(_)
collapse_spaces(s) ==
    IF s = <<>> THEN <<>>
    ELSE IF IsSpace(s[1])
         THEN <<" ">> \o collapse_spaces(lstrip(s))
         ELSE <<s[1]>> \o collapse_spaces(Tail(s))

\* pd.read_excel(file, header=h): the name pandas gives column j (0-based k = j - 1)
\* from the header cell, "Unnamed: k" for an empty one
raw_column_name(cell, j) ==
    IF isna(cell)
    THEN <<"U", "n", "n", "a", "m", "e", "d", ":", " ">> \o IntToStr(j - 1)
    ELSE astype_str(cell)

\* df.columns.astype(str).str.strip().str.replace(r"\s+", " ", regex=True)
normalize_column_name(name) == collapse_spaces(strip(name))

\* self.column_mapping.get(c, c)
column_mapping_get(c) ==
    IF \E e \in COLUMN_MAPPING : e[1] = c
    THEN (CHOOSE e \in COLUMN_MAPPING : e[1] = c)[2]
    ELSE c

\* the columns of a file after header detection, normalization and rename
renamed_columns(file) ==
    LET h == detect_header_row(file.grid)
        header == file.grid[h + 1]
    IN  [j \in DOMAIN header |->
            column_mapping_get(normalize_column_name(raw_column_name(header[j], j)))]

\* a validation that reports only the first missing required column
missing_required_first(file) ==
    LET missing == SelectSeq(REQUIRED_STRICT, LAMBDA c : c \notin Range(renamed_columns(file)))
    IN  IF missing = <<>> THEN <<>> ELSE <<missing[1]>>

\* missing_required = [c for c in self.required_strict if c not in df.columns]
missing_required(file) ==
    SelectSeq(REQUIRED_STRICT, LAMBDA c : c \notin Range(renamed_columns(file)))

\* df[col] of one data row; optional columns that are absent are added as pd.NA
cell_of(columns, row, col) ==
    IF col \in Range(columns)
    THEN row[CHOOSE j \in DOMAIN columns : columns[j] = col]
    ELSE NaN

\* _normalize_single_file for an accepted file: keep_cols + SourceFile
normalized_rows(file) ==
    LET h == detect_header_row(file.grid)
        columns == renamed_columns(file)
        data == SubSeq(file.grid, h + 2, Len(file.grid))
    IN  [i \in DOMAIN data |->
            [City |-> cell_of(columns, data[i], ColCity),
             Zip_Code |-> cell_of(columns, data[i], ColZip_Code),
             Created_On |-> cell_of(columns, data[i], ColCreated_On),
             Pledge_Amount |-> cell_of(columns, data[i], ColPledge_Amount),
             SourceFile |-> file.name]]

\* pd.concat(normalized_dfs, ignore_index=True)
RECURSIVE concat(_)
concat(dfs) == IF dfs = <<>> THEN <<>> ELSE dfs[1] \o concat(Tail(dfs))

----------------------------------------------------------------------------
(* Stage 1, steps 2 .. 5 *)

\* df[mask]: the rows satisfying a test, in order
Filter(df, Test(_)) == SelectSeq(df, Test)

\* clean_core_columns
clean_core_columns(df) ==
    LET kept == Filter(df, LAMBDA r : ~is_missing_text(r.Zip_Code))
    IN  [i \in DOMAIN kept |->
            LET r == kept[i]
                created == parse_date(r.Created_On)
            IN  [City |-> r.City,
                 Zip_Code |-> clean_zip(r.Zip_Code),
                 Created_On |-> created,
                 Pledge_Amount |-> clean_pledge_amount(r.Pledge_Amount),
                 SourceFile |-> r.SourceFile,
                 YearMo |-> S(YearMoOf(created))]]

\* the dtype of df_all["Created_On"] before clean_core_columns is datetime64:
\* read_excel gives that dtype to a column of date cells (empty cells apart),
\* and pd.concat keeps it when every frame with rows has it
created_on_is_datetime(dfs) ==
    /\ \E k \in DOMAIN dfs : dfs[k] # <<>>
    /\ \A k \in DOMAIN dfs :
            dfs[k] # <<>> =>
                /\ \A i \in DOMAIN dfs[k] : isna(dfs[k][i].Created_On) \/ dfs[k][i].Created_On.t = "date"
                /\ \E i \in DOMAIN dfs[k] : ~isna(dfs[k][i].Created_On)

\* clean_core_columns raises AttributeError at .dt (line 431): Series.apply of
\* line 428 leaves a column without rows as it is, and the accessor needs
\* datetime64
clean_core_columns_raises(dfs) ==
    /\ Filter(concat(dfs), LAMBDA r : ~is_missing_text(r.Zip_Code)) = <<>>
    /\ ~created_on_is_datetime(dfs)

\* the number in a numeric cell, in hundredths
cell_num(v) == IF v.t = "int" THEN 100 * v.n ELSE v.c

\* order of two cells of one column in sort_values: -1, 0, 1; missing values last
cmp_cell(a, b) ==
    IF isna(a) /\ isna(b) THEN 0
    ELSE IF isna(a) THEN 1
    ELSE IF isna(b) THEN -1
    ELSE IF a.t = "str"
         THEN (IF a.s = b.s THEN 0 ELSE IF StrLess(a.s, b.s) THEN -1 ELSE 1)
         ELSE (IF cell_num(a) = cell_num(b) THEN 0
               ELSE IF cell_num(a) < cell_num(b) THEN -1 ELSE 1)

\* dedupe_cols = ["Zip_Code", "YearMo", "Pledge_Amount"]
dedupe_key(r) == <<r.Zip_Code, r.YearMo, r.Pledge_Amount>>

\* lexicographic order of two rows on a tuple of cells
RECURSIVE key_less(_, _)
key_less(ka, kb) ==
    IF ka = <<>> THEN FALSE
    ELSE LET c == cmp_cell(ka[1], kb[1])
         IN  IF c = 0 THEN key_less(Tail(ka), Tail(kb)) ELSE c < 0

\* DataFrame.sort_values(cols) on several columns: a stable sort (lexsort), rows
\* with equal keys keep their input order
RECURSIVE insert_sorted(_, _)
insert_sorted(sorted, p) ==
    IF sorted = <<>> THEN <<p>>
    ELSE IF key_less(p.k, sorted[Len(sorted)].k)
         THEN Append(insert_sorted(SubSeq(sorted, 1, Len(sorted) - 1), p), sorted[Len(sorted)])
         ELSE Append(sorted, p)
RECURSIVE sort_keyed(_)
sort_keyed(ps) ==
    IF ps = <<>> THEN <<>>
    ELSE insert_sorted(sort_keyed(SubSeq(ps, 1, Len(ps) - 1)), ps[Len(ps)])
sort_values(df, Key(_)) ==
    LET ps == sort_keyed([i \in DOMAIN df |-> [k |-> Key(df[i]), r |-> df[i]]])
    IN  [i \in DOMAIN ps |-> ps[i].r]

\* duplicated(): two keys are the same when each column is equal, missing = missing
same_key(ka, kb) == \A j \in DOMAIN ka : cmp_cell(ka[j], kb[j]) = 0

\* DataFrame.drop_duplicates(subset, keep="first")
drop_duplicates(df, Key(_)) ==
    LET first == {i \in DOMAIN df : \A k \in 1..(i - 1) : ~same_key(Key(df[k]), Key(df[i]))}
        Pick[i \in 0..Len(df)] ==
            IF i = 0 THEN <<>>
            ELSE IF i \in first THEN Append(Pick[i - 1], df[i]) ELSE Pick[i - 1]
    IN  Pick[Len(df)]

\* a deduplication that compares each sorted row with its predecessor only and,
\* after dropping a row, lets the next one through
deduplicate_skipping(df) ==
    LET sorted == sort_values(df, dedupe_key)
        Keep[i \in 0..Len(sorted)] ==
            IF i = 0 THEN [rows |-> <<>>, dropped |-> FALSE]
            ELSE IF /\ i > 1
                    /\ ~Keep[i - 1].dropped
                    /\ same_key(dedupe_key(sorted[i - 1]), dedupe_key(sorted[i]))
                 THEN [rows |-> Keep[i - 1].rows, dropped |-> TRUE]
                 ELSE [rows |-> Append(Keep[i - 1].rows, sorted[i]), dropped |-> FALSE]
    IN  Keep[Len(sorted)].rows

\* a deduplication for which a record with a missing key field has no duplicate
deduplicate_keeping_missing(df) ==
    LET sorted == sort_values(df, dedupe_key)
        complete(r) == \A j \in DOMAIN dedupe_key(r) : ~isna(dedupe_key(r)[j])
        Keep[i \in 0..Len(sorted)] ==
            IF i = 0 THEN <<>>
            ELSE IF /\ complete(sorted[i])
                    /\ \E k \in 1..(i - 1) : same_key(dedupe_key(sorted[k]), dedupe_key(sorted[i]))
                 THEN Keep[i - 1]
                 ELSE Append(Keep[i - 1], sorted[i])
    IN  Keep[Len(sorted)]

\* deduplicate
deduplicate(df) == drop_duplicates(sort_values(df, dedupe_key), dedupe_key)

\* City as build_zip_city_from_internal normalizes it
norm_city(v) == upper(strip(astype_str(v)))

\* a mapping that takes, for each ZIP, the city of its first row with a city
build_zip_city_first_seen(df) ==
    LET valid == Filter(df, LAMBDA r : ~is_missing_text(r.City) /\ ~isna(r.Zip_Code))
        first(z) == CHOOSE i \in DOMAIN valid :
                        /\ valid[i].Zip_Code.s = z
                        /\ \A k \in 1..(i - 1) : valid[k].Zip_Code.s # z
    IN  {<<valid[i].Zip_Code.s, norm_city(valid[first(valid[i].Zip_Code.s)].City)>> : i \in DOMAIN valid}

\* build_zip_city_from_internal: ZIP text -> city text, as a set of pairs.
\* value_counts().sort_index().idxmax(): the most frequent city, the smallest
\* city text among the most frequent ones.
build_zip_city_from_internal(df) ==
    LET valid == Filter(df, LAMBDA r : ~is_missing_text(r.City) /\ ~isna(r.Zip_Code))
        zips == {valid[i].Zip_Code.s : i \in DOMAIN valid}
        count(z, c) == Cardinality({i \in DOMAIN valid :
                            valid[i].Zip_Code.s = z /\ norm_city(valid[i].City) = c})
        cities(z) == {norm_city(valid[i].City) : i \in {k \in DOMAIN valid : valid[k].Zip_Code.s = z}}
        top(z) == {c \in cities(z) : \A c2 \in cities(z) : count(z, c2) <= count(z, c)}
    IN  {<<z, CHOOSE c \in top(z) : \A c2 \in top(z) : StrLeq(c, c2)>> : z \in zips}

\* dict.get(key): the value, or None
dict_get(map, key) ==
    IF \E e \in map : e[1] = key THEN S((CHOOSE e \in map : e[1] = key)[2]) ELSE None

\* Series.map(dict): the value, NaN for a key that is missing or not in the dict
series_map(map, v) ==
    IF isna(v) \/ dict_get(map, v.s) = None THEN NaN ELSE dict_get(map, v.s)

\* df_geo.dropna(...).groupby("postal_code")["place_name"].first().str.upper().to_dict()
geonames_to_dict(df_geo) ==
    LET ok == Filter(df_geo, LAMBDA r : ~isna(r.postal_code) /\ ~isna(r.place_name))
        first(z) == CHOOSE i \in DOMAIN ok :
                        /\ ok[i].postal_code.s = z
                        /\ \A k \in 1..(i - 1) : ok[k].postal_code.s # z
    IN  {<<ok[i].postal_code.s, upper(ok[first(ok[i].postal_code.s)].place_name.s)>> : i \in DOMAIN ok}

\* what a read of US.txt (behind the URL, or the local file) can give: a table,
\* nothing (NaN: transport error or time-out, file absent), or bytes that
\* zipfile / read_csv reject
Malformed == [t |-> "malformed"]
is_table(f) == f.t = "file"

\* a loader that prefers the local file to the remote table
load_geonames_local_first(remote, local) ==
    IF is_table(local) THEN geonames_to_dict(local.rows)
    ELSE IF is_table(remote) THEN geonames_to_dict(remote.rows)
    ELSE {}

\* load_geonames_zip_city: remote is the outcome of the HTTP fetch, local the
\* content of data_geonames/US.txt; every exception is caught
load_geonames_zip_city(remote, local) ==
    IF is_table(remote) THEN geonames_to_dict(remote.rows)
    ELSE IF is_table(local) THEN geonames_to_dict(local.rows)
    ELSE {}

\* lookup_city inside fill_missing_cities
lookup_city(geonames_zip_city, zip_code) ==
    IF isna(zip_code) THEN None
    ELSE dict_get(geonames_zip_city, zfill(astype_str(zip_code), 5))

\* fill_missing_cities
fill_missing_cities(df, geonames_zip_city) ==
    LET zip_city_map_internal == build_zip_city_from_internal(df)
        step1 == [i \in DOMAIN df |->
                    IF is_missing_text(df[i].City)
                    THEN [df[i] EXCEPT !.City = series_map(zip_city_map_internal, df[i].Zip_Code)]
                    ELSE df[i]]
        step2 == [i \in DOMAIN step1 |->
                    IF geonames_zip_city # {} /\ is_missing_text(step1[i].City)
                    THEN [step1[i] EXCEPT !.City = lookup_city(geonames_zip_city, step1[i].Zip_Code)]
                    ELSE step1[i]]
    IN  [i \in DOMAIN step2 |-> [step2[i] EXCEPT !.City = S(norm_city(step2[i].City))]]

\* a filter whose upper bound is exclusive
filter_by_date_range_exclusive(df, start, end) ==
    IF start = None /\ end = None THEN df
    ELSE Filter(df, LAMBDA r :
            /\ (start # None => StrLeq(start.s, r.YearMo.s))
            /\ (end # None => StrLess(r.YearMo.s, end.s)))

\* filter_by_date_range
filter_by_date_range(df, start, end) ==
    IF start = None /\ end = None THEN df
    ELSE Filter(df, LAMBDA r :
            /\ (start # None => StrLeq(start.s, r.YearMo.s))
            /\ (end # None => StrLeq(r.YearMo.s, end.s)))

\* save_final_dataset: the table written to FINAL_OUTPUT, sheet LIHEAP_Data
save_final_dataset(df) ==
    [i \in DOMAIN df |->
        [City |-> df[i].City,
         Zip_Code |-> S(astype_str(df[i].Zip_Code)),
         YearMo |-> df[i].YearMo,
         Pledge_Amount |-> df[i].Pledge_Amount]]

----------------------------------------------------------------------------
(* Stage 1: the inputs of the model *)

\* bounds of the model
MaxRows == 3        \* data rows of a source file
MaxFiles == 2       \* source files under data_folder
MaxRuns == 2        \* runs of the stage-1 script on the same inputs
MaxTitleRows == 2   \* rows above the header row of a source file

\* all sequences over S of length 0..n
RECURSIVE SeqsUpTo(_, _)
SeqsUpTo(U, n) ==
    IF n = 0 THEN {<<>>}
    ELSE LET shorter == SeqsUpTo(U, n - 1)
         IN  shorter \cup {Append(q, x) : q \in {y \in shorter : Len(y) = n - 1}, x \in U}

\* the subsequences of a table with at most n rows
SubTables(table, n) ==
    {SelectSeq(table, LAMBDA r : r \in keep) :
        keep \in {k \in SUBSET Range(table) : Cardinality(k) <= n}}

\* file names, in the order sorted(..., key=lambda x: x.name) gives them
FileName(i) == <<"f">> \o IntToStr(i) \o <<".", "x", "l", "s", "x">>

\* header rows of source files (cells), columns Zip, Created, Amount[, City]
HeaderFull == <<S(<<" ", "Z", "i", "p", " ", " ", "C", "o", "d", "e">>), S(<<"C", "r", "e", "a", "t", "e", "d", " ", "O", "n">>), S(<<"P", "l", "e", "d", "g", "e", " ", "A", "m", "o", "u", "n", "t">>), S(<<"S", "e", "r", "v", "i", "c", "e", " ", "C", "i", "t", "y">>)>>
HeaderNoCity == <<S(<<"Z", "i", "p", "_", "C", "o", "d", "e">>), S(<<"C", "r", "e", "a", "t", "e", "d", "_", "O", "n">>), S(<<"[", "P", "l", "e", "d", "g", "e", "_", "A", "m", "o", "u", "n", "t", "]">>)>>
HeaderNoAmount == <<S(<<"Z", "I", "P">>), S(<<"C", "r", "e", "a", "t", "e", "d", " ", "O", "n">>), S(<<"A", "m", "o", "u", "n", "t">>), S(<<"C", "i", "t", "y">>)>>
HeaderNoZipNoAmount == <<S(<<"P", "o", "s", "t", "a", "l">>), S(<<"C", "r", "e", "a", "t", "e", "d", " ", "O", "n">>), S(<<"A", "m", "o", "u", "n", "t">>), S(<<"C", "i", "t", "y">>)>>
HeaderNoDate == <<S(<<"Z", "I", "P">>), S(<<"D", "a", "t", "e">>), S(<<"P", "l", "e", "d", "g", "e", " ", "A", "m", "o", "u", "n", "t">>), NaN>>
HeaderTabbed == <<S(<<"Z", "i", "p", "\t", "C", "o", "d", "e", " ">>), S(<<"C", "r", "e", "a", "t", "e", "d", " ", " ", " ", "O", "n">>), S(<<" ", " ", "P", "l", "e", "d", "g", "e", " ", "A", "m", "o", "u", "n", "t">>), S(<<"C", "i", "t", "y", " ">>)>>

\* raw data rows (cells in the column order Zip, Created, Amount, City)
RowVista == <<F(9208400), D(2024, 5, 14), I(100), S(<<"V", "i", "s", "t", "a">>)>>
RowPowayDup == <<S(<<"9", "2", "0", "8", "4">>), I(20240520), S(<<"$", "1", "0", "0", ".", "0", "0", " ">>), S(<<"P", "o", "w", "a", "y", " ">>)>>
RowLate == <<S(<<"9", "2", "0", "8", "4">>), D(2025, 7, 1), I(50), NaN>>
RowBadZip == <<S(<<"C", "A", " ", "9", "2", "1">>), D(2024, 6, 3), I(100), S(<<"V", "i", "s", "t", "a">>)>>
RowBlankCity == <<S(<<"9", "1", "9", "0", "2">>), S(<<"2", "0", "2", "3", "-", "0", "1", "-", "1", "5">>), I(75), S(<<" ">>)>>
RowNoZip == <<NaN, D(2024, 5, 14), I(100), S(<<"V", "i", "s", "t", "a">>)>>
RowBadFields == <<S(<<"9", "2", "0", "8", "4">>), I(20241331), S(<<"N", "/", "A">>), S(<<"n", "a", "n">>)>>
RawRows == {RowVista, RowPowayDup, RowLate, RowBadZip, RowBlankCity, RowNoZip, RowBadFields}

\* a source file: its name and the grid of its first sheet as pandas reads it
SourceFile(i, title_rows, header, rows) ==
    [name |-> FileName(i), grid |-> title_rows \o <<header>> \o rows]

\* the table behind https://download.geonames.org/export/zip/US.zip (US.txt)
GeoNamesUS == [t |-> "file",
               rows |-> <<[postal_code |-> S(<<"9", "1", "9", "0", "2">>), place_name |-> S(<<"B", "o", "n", "i", "t", "a">>)],
                         [postal_code |-> S(<<"9", "2", "0", "6", "4">>), place_name |-> S(<<"P", "o", "w", "a", "y">>)],
                         [postal_code |-> S(<<"9", "2", "0", "6", "4">>), place_name |-> S(<<"R", "a", "m", "o", "n", "a">>)],
                         [postal_code |-> NaN, place_name |-> S(<<"V", "i", "s", "t", "a">>)]>>]

----------------------------------------------------------------------------
(* Reading back a sheet written by DataFrame.to_excel *)

\* pandas' default na_values, those spelled with characters of the model
na_values == {<<>>, <<"N", "/", "A">>, <<"N", "A">>, <<"N", "U", "L", "L">>, <<"N", "a", "N">>, <<"N", "o", "n", "e">>, <<"n", "/", "a">>, <<"n", "a", "n">>, <<"n", "u", "l", "l">>}

\* one cell as the Excel reader hands it to the parser: a text listed in
\* na_values is read as missing
read_cell(v) == IF v.t = "str" /\ v.s \in na_values THEN NaN ELSE v

IsIntText(s) == s # <<>> /\ \A i \in DOMAIN s : IsDigit(s[i])
IsIntegral(v) ==
    \/ v.t = "int"
    \/ v.t = "str" /\ IsIntText(v.s)
    \/ v.t = "float" /\ v.c % 100 = 0
IntegralValue(v) ==
    IF v.t = "int" THEN v.n ELSE IF v.t = "float" THEN v.c \div 100 ELSE DigitsToInt(v.s)

\* the parser's type inference for one column (a sequence of cells): when every
\* present cell is a number or a text that spells an integer, the column becomes
\* numeric (int64 without missing cells, float64 with them); otherwise the
\* column keeps its objects.  Columns of non-integral floats are left as read.
read_excel_column(cells) ==
    LET read == [i \in DOMAIN cells |-> read_cell(cells[i])]
        present == {i \in DOMAIN read : ~isna(read[i])}
        missing == \E i \in DOMAIN read : isna(read[i])
    IN  IF present # {} /\ \A i \in present : IsIntegral(read[i])
        THEN [i \in DOMAIN read |->
                IF isna(read[i]) THEN NaN
                ELSE IF missing THEN F(100 * IntegralValue(read[i]))
                ELSE I(IntegralValue(read[i]))]
        ELSE read

\* pd.read_excel of the sheet LIHEAP_Data written by save_final_dataset
read_excel_liheap(rows) ==
    LET city == read_excel_column([i \in DOMAIN rows |-> rows[i].City])
        zip == read_excel_column([i \in DOMAIN rows |-> rows[i].Zip_Code])
        yearmo == read_excel_column([i \in DOMAIN rows |-> rows[i].YearMo])
    IN  [i \in DOMAIN rows |->
            [City |-> city[i], Zip_Code |-> zip[i], YearMo |-> yearmo[i],
             Pledge_Amount |-> rows[i].Pledge_Amount]]

\* test_reproducibility.py: the checksum of df.to_csv(index=False); the model
\* keeps the table itself, so two checksums are equal iff the tables are
checksum_of(rows) == read_excel_liheap(rows)

----------------------------------------------------------------------------
(* Stage 1: LiheapPipeline.run as a state machine *)

NotWritten == [written |-> FALSE, rows |-> <<>>]
Written(rows) == [written |-> TRUE, rows |-> rows]

\* main(): start_year_month="2023-01", end_year_month="2025-06"
DefaultStart == S(<<"2", "0", "2", "3", "-", "0", "1">>)
DefaultEnd == S(<<"2", "0", "2", "5", "-", "0", "6">>)

\* the state every run of the script starts from (LiheapPipeline.__init__)
FreshRun ==
    /\ file_idx = 1
    /\ header_rows = <<>>
    /\ normalized_dfs = <<>>
    /\ skipped_files = <<>>
    /\ df_all = <<>>
    /\ removed = 0
    /\ http_ok = "not tried"
    /\ local_tried = FALSE
    /\ internal_zip_city = {}
    /\ external_zip_city = {}

InitNorm(files) ==
    /\ excel_files \in files
    /\ geonames_file = NaN
    /\ start_year_month = DefaultStart
    /\ end_year_month = DefaultEnd
    /\ pc = "idle"
    /\ FreshRun
    /\ combined_output = NotWritten
    /\ final_output = NotWritten
    /\ runs = 0
    /\ checksums = <<>>

\* python 01_combine_liheap_data.py: main() builds the pipeline and calls run();
\* load_and_normalize_all_files lists the files and raises FileNotFoundError
\* when there is none
StartRun ==
    /\ pc = "idle"
    /\ runs < MaxRuns
    /\ runs' = runs + 1
    /\ file_idx' = 1
    /\ header_rows' = <<>>
    /\ normalized_dfs' = <<>>
    /\ skipped_files' = <<>>
    /\ df_all' = <<>>
    /\ removed' = 0
    /\ http_ok' = "not tried"
    /\ local_tried' = FALSE
    /\ internal_zip_city' = {}
    /\ external_zip_city' = {}
    /\ pc' = IF excel_files = <<>> THEN "aborted" ELSE "load"
    /\ UNCHANGED varsJoin
    /\ UNCHANGED varsBls
    /\ UNCHANGED <<excel_files, geonames_file, start_year_month, end_year_month,
                   combined_output, final_output, checksums>>

\* one iteration of the loop over excel_files: _normalize_single_file
NormalizeSingleFile ==
    /\ pc = "load"
    /\ file_idx <= Len(excel_files)
    /\ LET file == excel_files[file_idx]
           missing == missing_required(file)
       IN  /\ header_rows' = Append(header_rows, detect_header_row(file.grid))
           /\ IF missing # <<>>
              THEN /\ skipped_files' = Append(skipped_files, <<file.name, missing>>)
                   /\ UNCHANGED normalized_dfs
              ELSE /\ normalized_dfs' = Append(normalized_dfs, normalized_rows(file))
                   /\ UNCHANGED skipped_files
    /\ file_idx' = file_idx + 1
    /\ UNCHANGED varsJoin
    /\ UNCHANGED varsBls
    /\ UNCHANGED <<excel_files, geonames_file, start_year_month, end_year_month, pc,
                   df_all, removed, http_ok, local_tried, internal_zip_city, external_zip_city, combined_output, final_output, runs,
                   checksums>>

\* an end of the loop that gives up as soon as one file was rejected
AbortOnSkippedFile ==
    /\ pc = "load"
    /\ file_idx > Len(excel_files)
    /\ skipped_files # <<>>
    /\ pc' = "aborted"
    /\ UNCHANGED varsJoin
    /\ UNCHANGED varsBls
    /\ UNCHANGED <<excel_files, geonames_file, start_year_month, end_year_month,
                   file_idx, header_rows, normalized_dfs, skipped_files, df_all,
                   removed, http_ok, local_tried, internal_zip_city, external_zip_city, combined_output, final_output, runs, checksums>>

\* after the loop: RuntimeError when no file survived
AbortNoValidFiles ==
    /\ pc = "load"
    /\ file_idx > Len(excel_files)
    /\ normalized_dfs = <<>>
    /\ pc' = "aborted"
    /\ UNCHANGED varsJoin
    /\ UNCHANGED varsBls
    /\ UNCHANGED <<excel_files, geonames_file, start_year_month, end_year_month,
                   file_idx, header_rows, normalized_dfs, skipped_files, df_all,
                   removed, http_ok, local_tried, internal_zip_city, external_zip_city, combined_output, final_output, runs, checksums>>

\* after the loop: concat, write COMBINED_OUTPUT, return df_all
ConcatAndSaveCombined ==
    /\ pc = "load"
    /\ file_idx > Len(excel_files)
    /\ normalized_dfs # <<>>
    /\ df_all' = concat(normalized_dfs)
    /\ combined_output' = Written(concat(normalized_dfs))
    /\ pc' = "clean"
    /\ UNCHANGED varsJoin
    /\ UNCHANGED varsBls
    /\ UNCHANGED <<excel_files, geonames_file, start_year_month, end_year_month,
                   file_idx, header_rows, normalized_dfs, skipped_files, removed,
                   http_ok, local_tried, internal_zip_city, external_zip_city, final_output, runs, checksums>>

CleanCoreColumns ==
    /\ pc = "clean"
    /\ IF clean_core_columns_raises(normalized_dfs)
       THEN pc' = "raised" /\ df_all' = df_all
       ELSE pc' = "dedup" /\ df_all' = clean_core_columns(df_all)
    /\ UNCHANGED varsJoin
    /\ UNCHANGED varsBls
    /\ UNCHANGED <<excel_files, geonames_file, start_year_month, end_year_month,
                   file_idx, header_rows, normalized_dfs, skipped_files, removed,
                   http_ok, local_tried, internal_zip_city, external_zip_city, combined_output, final_output, runs, checksums>>

\* a deduplication that sees only the records of the date range
DeduplicateInDateRange ==
    /\ pc = "dedup"
    /\ df_all' = deduplicate(filter_by_date_range(df_all, start_year_month, end_year_month))
    /\ removed' = Len(df_all) - Len(deduplicate(filter_by_date_range(df_all, start_year_month, end_year_month)))
    /\ pc' = "fill"
    /\ UNCHANGED varsJoin
    /\ UNCHANGED varsBls
    /\ UNCHANGED <<excel_files, geonames_file, start_year_month, end_year_month,
                   file_idx, header_rows, normalized_dfs, skipped_files,
                   http_ok, local_tried, internal_zip_city, external_zip_city, combined_output, final_output, runs, checksums>>

Deduplicate ==
    /\ pc = "dedup"
    /\ df_all' = deduplicate(df_all)
    /\ removed' = Len(df_all) - Len(deduplicate(df_all))
    /\ pc' = "fill"
    /\ UNCHANGED varsJoin
    /\ UNCHANGED varsBls
    /\ UNCHANGED <<excel_files, geonames_file, start_year_month, end_year_month,
                   file_idx, header_rows, normalized_dfs, skipped_files, http_ok, local_tried, internal_zip_city, external_zip_city,
                   combined_output, final_output, runs, checksums>>

\* fill_missing_cities; the HTTP fetch inside load_geonames_zip_city succeeds or
\* raises (time-out, transport error, malformed archive), which the run cannot
\* control; the local file is looked for only after the fetch raised
FillMissingCities ==
    /\ pc = "fill"
    /\ \E remote \in {GeoNamesUS, NaN, Malformed} :
          /\ http_ok' = IF is_table(remote) THEN "ok" ELSE "failed"
          /\ local_tried' = ~is_table(remote)
          /\ external_zip_city' = load_geonames_zip_city(remote, geonames_file)
          /\ df_all' = fill_missing_cities(df_all,
                            load_geonames_zip_city(remote, geonames_file))
    /\ internal_zip_city' = build_zip_city_from_internal(df_all)
    /\ pc' = "filter"
    /\ UNCHANGED varsJoin
    /\ UNCHANGED varsBls
    /\ UNCHANGED <<excel_files, geonames_file, start_year_month, end_year_month,
                   file_idx, header_rows, normalized_dfs, skipped_files, removed,
                   combined_output, final_output, runs, checksums>>

FilterByDateRange ==
    /\ pc = "filter"
    /\ df_all' = filter_by_date_range(df_all, start_year_month, end_year_month)
    /\ pc' = "save"
    /\ UNCHANGED varsJoin
    /\ UNCHANGED varsBls
    /\ UNCHANGED <<excel_files, geonames_file, start_year_month, end_year_month,
                   file_idx, header_rows, normalized_dfs, skipped_files, removed,
                   http_ok, local_tried, internal_zip_city, external_zip_city, combined_output, final_output, runs, checksums>>

SaveFinalDataset ==
    /\ pc = "save"
    /\ final_output' = Written(save_final_dataset(df_all))
    /\ pc' = "done"
    /\ UNCHANGED varsJoin
    /\ UNCHANGED varsBls
    /\ UNCHANGED <<excel_files, geonames_file, start_year_month, end_year_month,
                   file_idx, header_rows, normalized_dfs, skipped_files, df_all,
                   removed, http_ok, local_tried, internal_zip_city, external_zip_city, combined_output, runs, checksums>>

\* python test_reproducibility.py after a run: read FINAL_OUTPUT, print its checksum
TestReproducibility ==
    /\ pc = "done"
    /\ checksums' = Append(checksums, checksum_of(final_output.rows))
    /\ pc' = "idle"
    /\ UNCHANGED varsJoin
    /\ UNCHANGED varsBls
    /\ UNCHANGED <<excel_files, geonames_file, start_year_month, end_year_month,
                   file_idx, header_rows, normalized_dfs, skipped_files, df_all,
                   removed, http_ok, local_tried, internal_zip_city, external_zip_city, combined_output, final_output, runs>>

NextNorm ==
    \/ StartRun
    \/ NormalizeSingleFile
    \/ AbortNoValidFiles
    \/ ConcatAndSaveCombined
    \/ CleanCoreColumns
    \/ Deduplicate
    \/ FillMissingCities
    \/ FilterByDateRange
    \/ SaveFinalDataset
    \/ TestReproducibility

----------------------------------------------------------------------------
(* Stages 2, 3, 5, 6: aggregation and joins *)

\* LiheapPipeline.run on a list of files, with the outcome of the HTTP fetch:
\* the table a run that does not raise saves
run_pipeline(files, fetched) ==
    LET accepted == SelectSeq(files, LAMBDA f : missing_required(f) = <<>>)
        loaded == concat([i \in DOMAIN accepted |-> normalized_rows(accepted[i])])
        geonames == load_geonames_zip_city(IF fetched THEN GeoNamesUS ELSE NaN, NaN)
    IN  save_final_dataset(
            filter_by_date_range(
                fill_missing_cities(deduplicate(clean_core_columns(loaded)), geonames),
                DefaultStart, DefaultEnd))

\* 02_aggregate_liheap_by_zip.py configuration
VALID_YEAR_MIN == 2023
VALID_YEAR_MAX == 2025

\* 02 STEP 2: astype(str), drop a trailing ".0", zfill(5)
normalize_zip_code(v) == S(zfill(strip_dot_zero(astype_str(v)), 5))

\* 02 STEP 3: pd.to_datetime(YearMo, format="%Y-%m").dt.year; "NaT" gives no year
year_of_yearmo(v) ==
    IF isna(v) \/ v.s = <<"N", "a", "T">> THEN NaN ELSE I(DigitsToInt(SubSeq(v.s, 1, 4)))

\* Series.between(lo, hi): inclusive, False for a missing value
between(v, lo, hi) == ~isna(v) /\ lo <= v.n /\ v.n <= hi

\* sum of a column of floats in hundredths, missing values skipped
RECURSIVE sum_amounts(_)
sum_amounts(cells) ==
    IF cells = <<>> THEN 0
    ELSE (IF isna(cells[1]) THEN 0 ELSE cell_num(cells[1])) + sum_amounts(Tail(cells))

zip_year_key(r) == <<r.Zip_Code, r.Year>>

\* 02 STEP 5-6: groupby(["Zip_Code", "Year"]).agg(sum, count), sorted by key
groupby_zip_year(df) ==
    LET firsts == drop_duplicates(sort_values(df, zip_year_key), zip_year_key)
    IN  [g \in DOMAIN firsts |->
            LET members == SelectSeq(df, LAMBDA r :
                                same_key(zip_year_key(r), zip_year_key(firsts[g])))
                amounts == [i \in DOMAIN members |-> members[i].Pledge_Amount]
            IN  [Zip_Code |-> firsts[g].Zip_Code,
                 Year |-> firsts[g].Year,
                 total_pledge |-> F(sum_amounts(amounts)),
                 record_count |-> I(Len(SelectSeq(amounts, LAMBDA a : ~isna(a))))]]

\* the whole of 02_aggregate_liheap_by_zip.py on the clean table it reads
aggregate_liheap_by_zip(clean) ==
    LET df == read_excel_liheap(clean)
        keyed == [i \in DOMAIN df |->
                    [Zip_Code |-> normalize_zip_code(df[i].Zip_Code),
                     Year |-> year_of_yearmo(df[i].YearMo),
                     Pledge_Amount |-> df[i].Pledge_Amount]]
        valid == Filter(keyed, LAMBDA r : between(r.Year, VALID_YEAR_MIN, VALID_YEAR_MAX))
    IN  groupby_zip_year(valid)

\* df["Zip_Code"].astype(str).str.strip().str.zfill(5)  (stages 3 and 6)
standardize_zip_code(v) == S(zfill(strip(astype_str(v)), 5))

\* a left merge that keeps, for each left row, its first match only
merge_first_match(left, right, on, right_cols) ==
    LET first(l) == SelectSeq(right, LAMBDA r : \A k \in on : l[k] = r[k])
    IN  [i \in DOMAIN left |->
            IF first(left[i]) = <<>>
            THEN left[i] @@ [c \in right_cols |-> NaN]
            ELSE left[i] @@ [c \in right_cols |-> first(left[i])[1][c]]]

\* DataFrame.merge(right, on=on, how="left"): for each left row, in order, one
\* row per matching right row, or one row with the right columns missing
merge(left, right, on, right_cols) ==
    LET matches(l) == SelectSeq(right, LAMBDA r : \A k \in on : l[k] = r[k])
        expand(l) ==
            IF matches(l) = <<>>
            THEN <<l @@ [c \in right_cols |-> NaN]>>
            ELSE [j \in DOMAIN matches(l) |-> l @@ [c \in right_cols |-> matches(l)[j][c]]]
        Merged[i \in 0..Len(left)] ==
            IF i = 0 THEN <<>> ELSE Merged[i - 1] \o expand(left[i])
    IN  Merged[Len(left)]

\* pd.read_excel of a table: type inference on its Zip_Code column
read_zip_column(rows) == read_excel_column([i \in DOMAIN rows |-> rows[i].Zip_Code])

\* 03_join_liheap_acs_data.py STEP 1-3
join_liheap_acs(zip_year, income, population) ==
    LET zips == read_zip_column(zip_year)
        liheap == [i \in DOMAIN zip_year |->
                    [zip_year[i] EXCEPT !.Zip_Code = standardize_zip_code(zips[i])]]
        inc == [i \in DOMAIN income |->
                    [Zip_Code |-> standardize_zip_code(income[i].ZIPCODE),
                     Median_Income |-> income[i].Median_Income]]
        pop == [i \in DOMAIN population |->
                    [Zip_Code |-> standardize_zip_code(population[i].ZIPCODE),
                     Population |-> population[i].Population]]
    IN  merge(merge(liheap, inc, {"Zip_Code"}, {"Median_Income"}),
              pop, {"Zip_Code"}, {"Population"})

\* Python's s[a:b] for 0 <= a <= b
slice(s, a, b) == SubSeq(s, a + 1, Min(b, Len(s)))

\* County_FIPS without the zero padding
county_fips_unpadded(series_id) ==
    LET series == astype_str(series_id)
    IN  slice(series, 5, 7) \o slice(series, 7, 10)

\* 05 STEP 2: County_FIPS derived from Series_ID
county_fips_of(series_id) ==
    LET series == astype_str(series_id)
    IN  zfill(slice(series, 5, 7) \o slice(series, 7, 10), 5)

\* df_bls.columns: the labels of the header row of the BLS file; a file without
\* data rows is the sheet stage 4 writes, header row only
bls_columns(bls) ==
    IF bls = <<>> THEN {"Year", "unemployment_rate", "County", "Series_ID", "Series_Title"}
    ELSE DOMAIN bls[1]

\* 05 STEP 2: the two KeyErrors (lines 105-106 and 116-119; line 112 reads Year)
bls_has_required(bls) ==
    /\ {"County_FIPS", "Series_ID"} \cap bls_columns(bls) # {}
    /\ {"Year", "County", "unemployment_rate"} \subseteq bls_columns(bls)

\* 05 STEP 2: df_bls_clean
bls_clean(bls) ==
    [i \in DOMAIN bls |->
        [Year |-> bls[i].Year,
         County_FIPS |-> IF "County_FIPS" \in bls_columns(bls) THEN bls[i].County_FIPS
                         ELSE S(county_fips_of(bls[i].Series_ID)),
         County |-> bls[i].County,
         unemployment_rate |-> bls[i].unemployment_rate]]

\* 05 STEP 3: Zip_Code of a crosswalk row, astype(str).str.zfill(5)
crosswalk_zip_code(v) == S(zfill(astype_str(v), 5))

\* 05 STEP 3: the crosswalk rows of California, keys standardized
crosswalk_ca(xw) ==
    LET ca == Filter(xw, LAMBDA r : upper(astype_str(r.USPS_ZIP_PREF_STATE)) = <<"C", "A">>)
    IN  [i \in DOMAIN ca |->
            [Zip_Code |-> crosswalk_zip_code(ca[i].ZIP),
             County_FIPS |-> S(zfill(astype_str(ca[i].COUNTY), 5)),
             TOT_RATIO |-> ca[i].TOT_RATIO]]

\* sort key of sort_values(["Zip_Code", "TOT_RATIO"], ascending=[True, False])
zip_weight_key(r) ==
    <<r.Zip_Code, IF isna(r.TOT_RATIO) THEN NaN ELSE F(0 - cell_num(r.TOT_RATIO))>>

zip_key(r) == <<r.Zip_Code>>

\* the first California row of each ZIP, whatever its ratio
zip_primary_unsorted(xw) ==
    LET firsts == drop_duplicates(crosswalk_ca(xw), zip_key)
    IN  [i \in DOMAIN firsts |->
            [Zip_Code |-> firsts[i].Zip_Code,
             County_FIPS |-> firsts[i].County_FIPS,
             zip_to_county_weight |-> firsts[i].TOT_RATIO]]

\* 05 STEP 4: each ZIP with its county of largest TOT_RATIO
zip_primary(xw) ==
    LET firsts == drop_duplicates(sort_values(crosswalk_ca(xw), zip_weight_key), zip_key)
    IN  [i \in DOMAIN firsts |->
            [Zip_Code |-> firsts[i].Zip_Code,
             County_FIPS |-> firsts[i].County_FIPS,
             zip_to_county_weight |-> firsts[i].TOT_RATIO]]

\* 05 STEP 5-6: the ZIP-level unemployment table
zip_unemployment(primary, bls) ==
    merge(primary, bls_clean(bls), {"County_FIPS"}, {"Year", "County", "unemployment_rate"})

\* pd.to_numeric(..., errors="coerce").astype("Int64") of a Year cell
to_Int64(v) ==
    IF isna(v) THEN NaN
    ELSE IF v.t = "int" THEN v
    ELSE IF v.t = "float" /\ v.c % 100 = 0 THEN I(v.c \div 100)
    ELSE NaN

\* 06 STEP 2: df_unemp_clean, from the stage-5 file as pd.read_excel reads it
unemp_clean(unemp) ==
    LET zips == read_zip_column(unemp)
        fips == read_excel_column([i \in DOMAIN unemp |-> unemp[i].County_FIPS])
        years == read_excel_column([i \in DOMAIN unemp |-> unemp[i].Year])
        rows == [i \in DOMAIN unemp |->
                    [Zip_Code |-> standardize_zip_code(zips[i]),
                     Year |-> to_Int64(years[i]),
                     unemployment_rate |-> unemp[i].unemployment_rate,
                     County |-> unemp[i].County,
                     County_FIPS |-> fips[i]]]
    IN  Filter(rows, LAMBDA r : ~isna(r.Zip_Code) /\ ~isna(r.Year))

\* 06_join_liheap_acs_unemployment.py STEP 2-4
join_liheap_acs_unemployment(acs, unemp) ==
    LET zips == read_zip_column(acs)
        left == [i \in DOMAIN acs |->
                    [acs[i] EXCEPT !.Zip_Code = standardize_zip_code(zips[i]),
                                   !.Year = to_Int64(acs[i].Year)]]
        combined == merge(left, unemp_clean(unemp), {"Zip_Code", "Year"},
                          {"unemployment_rate", "County", "County_FIPS"})
    IN  sort_values(combined, zip_year_key)

----------------------------------------------------------------------------
(* Specifications of stage 1 *)

\* the chain of stages 2 .. 6 is not running
JoinIdle ==
    /\ pcJ = "off"
    /\ liheap_clean = <<>>
    /\ liheap_zip_year = <<>>
    /\ df_income = <<>>
    /\ df_population = <<>>
    /\ liheap_acs = <<>>
    /\ df_bls = <<>>
    /\ df_bls_clean = <<>>
    /\ df_xw = <<>>
    /\ df_zip_primary = <<>>
    /\ df_zip_unemp = <<>>
    /\ df_final = <<>>

\* the stage-4 script is not part of the run
BlsOff ==
    /\ pcB = "off"
    /\ xls = [exists |-> FALSE, sheets |-> <<>>]
    /\ sheet_idx = 1
    /\ annual_rows = <<>>
    /\ processed_sheets = 0
    /\ skipped_no_table = 0
    /\ skipped_no_value_col = 0
    /\ annual = <<>>
    /\ annual_full = NotWritten
    /\ annual_ytd = NotWritten

JoinOff == JoinIdle /\ BlsOff

\* a file that fails validation (no Pledge_Amount column)
BadFile(i) == SourceFile(i, <<>>, HeaderNoAmount, <<RowVista>>)

\* Inputs of Spec: no file, one rejected file, or one valid file with up to
\* MaxRows data rows
DataFileLists ==
    {<<>>, <<BadFile(1)>>}
    \cup {<<SourceFile(1, <<>>, HeaderFull, rows)>> : rows \in SeqsUpTo(RawRows, MaxRows)}

Init == InitNorm(DataFileLists) /\ JoinOff
Next == NextNorm
Spec == Init /\ [][Next]_vars

\* Inputs of SpecLoad: up to MaxFiles files, each with one of the header rows
\* and one data row of the header's width
HeaderRows == {HeaderFull, HeaderNoCity, HeaderNoAmount, HeaderNoZipNoAmount,
               HeaderNoDate, HeaderTabbed}
HeaderFileLists ==
    {[i \in DOMAIN hs |-> SourceFile(i, <<>>, hs[i], <<SubSeq(RowVista, 1, Len(hs[i]))>>)] :
        hs \in SeqsUpTo(HeaderRows, MaxFiles)}

InitLoad == InitNorm(HeaderFileLists) /\ JoinOff
SpecLoad == InitLoad /\ [][Next]_vars

\* Inputs of SpecHeader: one file whose sheet has up to MaxTitleRows rows above
\* its header row, and one sheet with max_rows rows of numbers above it
TitleRow == <<S(<<"L", "I", "H", "E", "A", "P", " ", "R", "e", "p", "o", "r", "t">>), NaN, NaN, NaN>>
BlankRow == <<NaN, NaN, NaN, NaN>>
YearRow == <<I(2024), NaN, NaN, NaN>>
LabelRow == <<S(<<"P", "e", "r", "i", "o", "d">>), S(<<"Q", "1">>), NaN, NaN>>
NumberRow == <<I(2024), I(12), I(31), NaN>>
RowsAboveHeader == {TitleRow, BlankRow, YearRow, LabelRow, NumberRow}
TitledFileLists ==
    {<<>>}
    \cup {<<SourceFile(1, above, h, <<RowVista>>)>> :
            above \in SeqsUpTo(RowsAboveHeader, MaxTitleRows),
            h \in {HeaderFull, HeaderNoAmount}}
    \cup {<<SourceFile(1, [i \in 1..max_rows |-> NumberRow], HeaderFull, <<RowVista>>)>>}

InitHeader == InitNorm(TitledFileLists) /\ JoinOff
SpecHeader == InitHeader /\ [][Next]_vars

----------------------------------------------------------------------------
(* Stage 1: inputs for the City backfill and the GeoNames fallback *)

\* rows of ZIP 92064 with the cities Ramona (twice, in two spellings) and Poway
\* and with no city; their amounts differ, so deduplication keeps them all and
\* sorts them in the order Ramona, Poway, Ramona, missing
CityRamona == <<S(<<"9", "2", "0", "6", "4">>), D(2024, 5, 14), I(100), S(<<"R", "a", "m", "o", "n", "a">>)>>
CityPoway == <<S(<<"9", "2", "0", "6", "4">>), D(2024, 5, 14), I(150), S(<<"P", "o", "w", "a", "y">>)>>
CityRamonaAgain == <<S(<<"9", "2", "0", "6", "4">>), D(2024, 5, 14), I(200), S(<<" ", "r", "a", "m", "o", "n", "a", " ">>)>>
CityMissing == <<S(<<"9", "2", "0", "6", "4">>), D(2024, 5, 14), I(400), NaN>>

\* the rows a file of SpecCity is drawn from; RowBlankCity (91902) is known to
\* GeoNamesUS only, RowLate (92084, no city) to GeoNamesLocal only
CityTable == <<CityRamona, CityPoway, CityRamonaAgain, CityMissing, RowBlankCity, RowLate>>

\* a local data_geonames/US.txt that differs from the remote table
GeoNamesLocal == [t |-> "file",
                  rows |-> <<[postal_code |-> S(<<"9", "2", "0", "8", "4">>), place_name |-> S(<<"V", "i", "s", "t", "a">>)],
                            [postal_code |-> S(<<"9", "2", "0", "6", "4">>), place_name |-> NaN],
                            [postal_code |-> S(<<"9", "2", "0", "6", "4">>), place_name |-> S(<<"E", "s", "c", "o", "n", "d", "i", "d", "o">>)]>>]

\* Inputs of SpecCity: one rejected file, or one valid file with up to MaxRows
\* rows of CityTable, and a local GeoNames file that is absent, unreadable or
\* present
CityFileLists ==
    {<<BadFile(1)>>}
    \cup {<<SourceFile(1, <<>>, HeaderFull, rows)>> : rows \in SubTables(CityTable, MaxRows)}

InitCity ==
    /\ excel_files \in CityFileLists
    /\ geonames_file \in {NaN, Malformed, GeoNamesLocal}
    /\ start_year_month = DefaultStart
    /\ end_year_month = DefaultEnd
    /\ pc = "idle"
    /\ FreshRun
    /\ combined_output = NotWritten
    /\ final_output = NotWritten
    /\ runs = 0
    /\ checksums = <<>>
    /\ JoinOff
SpecCity == InitCity /\ [][Next]_vars

----------------------------------------------------------------------------
(* Stage 1: inputs for the date-range filter *)

\* rows created on the last day before, the first and last day inside, and the
\* first day after 2023-01 .. 2025-06; RowBadFields has a date that does not parse
DateDec2022 == <<S(<<"9", "2", "0", "8", "4">>), D(2022, 12, 31), I(10), S(<<"V", "i", "s", "t", "a">>)>>
DateJan2023 == <<S(<<"9", "2", "0", "8", "4">>), I(20230101), I(20), S(<<"V", "i", "s", "t", "a">>)>>
DateJun2025 == <<S(<<"9", "2", "0", "8", "4">>), S(<<"2", "0", "2", "5", "-", "0", "6", "-", "3", "0">>), I(30), S(<<"V", "i", "s", "t", "a">>)>>
DateTable == <<DateDec2022, DateJan2023, DateJun2025, RowLate, RowBadFields>>

\* Inputs of SpecDates: one rejected file, or one valid file with up to MaxRows
\* rows of DateTable; each bound of the filter is unset or main()'s
InitDates ==
    /\ excel_files \in {<<BadFile(1)>>}
                        \cup {<<SourceFile(1, <<>>, HeaderFull, rows)>> :
                                rows \in SubTables(DateTable, MaxRows)}
    /\ geonames_file = NaN
    /\ start_year_month \in {None, DefaultStart}
    /\ end_year_month \in {None, DefaultEnd}
    /\ pc = "idle"
    /\ FreshRun
    /\ combined_output = NotWritten
    /\ final_output = NotWritten
    /\ runs = 0
    /\ checksums = <<>>
    /\ JoinOff
SpecDates == InitDates /\ [][Next]_vars

----------------------------------------------------------------------------
(* Stage 1: inputs for the field cleaners *)

\* raw ZIP values: numeric 92101.0, texts without a run of 5 digits, ZIP+4 with
\* and without hyphen, two runs of 5 digits, a float-serialized text in spaces
ZipValues ==
    {F(9210100), I(2134), S(<<"C", "A", " ", "9", "2", "1">>), S(<<"9", "2", "1", "0", "1", "1", "2", "3", "4">>), S(<<"9", "2", "1", "0", "1", "-", "1", "2", "3", "4">>),
     S(<<"1", "2", "3", "4", ".", "0">>), S(<<" ", "9", "2", "1", "0", "1", ".", "0", " ">>), S(<<"a", "b", "1", "2", "3", "4", "5", "c", "d", "6", "7", "8", "9", "0">>)}

\* raw amounts: texts with currency marks, signs, several dots, no digit at all,
\* and numbers
AmountValues ==
    {S(<<"$", "1", ",", "2", "3", "4", ".", "5", "6", " ">>), S(<<"N", "/", "A">>), S(<<"-", "5">>), S(<<"1", "-", "2">>), S(<<"(", "7", ".", "5", ")">>),
     S(<<"1", ".", "2", ".", "3">>), S(<<"-">>), S(<<" ">>), S(<<".", "5">>), I(100), F(12345), NaN}

\* Inputs of SpecCleaners: one rejected file, or one valid file with one data row
InitCleaners ==
    /\ InitNorm({<<BadFile(1)>>}
                \cup {<<SourceFile(1, <<>>, HeaderFull, <<<<z, D(2024, 5, 14), a, S(<<"V", "i", "s", "t", "a">>)>>>>)>> :
                        z \in ZipValues, a \in AmountValues})
    /\ JoinOff
SpecCleaners == InitCleaners /\ [][Next]_vars

----------------------------------------------------------------------------
(* Claims about stage 1 *)

IsZip5(v) == v.t = "str" /\ Len(v.s) = 5 /\ \A i \in DOMAIN v.s : IsDigit(v.s[i])

\* the rows handed to clean_core_columns in this run, and its result
loaded_rows == concat(normalized_dfs)
cleaned_rows == clean_core_columns(loaded_rows)

\* C4: every Zip_Code of the table the Normalizer emits is a text of exactly
\* 5 digits, whatever the raw ZIP values of the source files.
C4_ZipInvariant ==
    final_output.written =>
        \A i \in DOMAIN final_output.rows : IsZip5(final_output.rows[i].Zip_Code)

\* C5: after the cleaning step the table holds exactly the loaded records whose
\* ZIP value is present and cleans to a 5-digit code (a record with an
\* uncleanable ZIP is gone; one with an unparseable date or amount stays).
C5_UncleanableZipDropped ==
    pc = "dedup" =>
        /\ \A i \in DOMAIN df_all : IsZip5(df_all[i].Zip_Code)
        /\ Len(df_all) = Cardinality({i \in DOMAIN loaded_rows :
                                         /\ ~is_missing_text(loaded_rows[i].Zip_Code)
                                         /\ IsZip5(clean_zip(loaded_rows[i].Zip_Code))})

\* C6: deduplication is idempotent: applied to its own output it returns the
\* same rows in the same order and removes nothing.
C6_DedupIdempotent ==
    pc = "fill" =>
        /\ deduplicate(df_all) = df_all
        /\ Len(df_all) - Len(deduplicate(df_all)) = 0

\* C6 witness: a run in which deduplication has just removed duplicate rows
C6_Witness == pc = "fill" /\ removed > 0 /\ Len(df_all) >= 2

\* the rows of df in the order given by the permutation p of its indices
Permuted(df, p) == [i \in DOMAIN df |-> df[p[i]]]

\* C7: deduplication returns the same table (non-key fields City, SourceFile,
\* Created_On included) for every permutation of the rows of its input.
C7_DedupOrderIndependent ==
    pc = "fill" =>
        \A p \in Permutations(DOMAIN cleaned_rows) :
            deduplicate(Permuted(cleaned_rows, p)) = df_all

\* C8: every run of the Normalizer on the same input files leaves the same final
\* table, so the checksum printed after each run is always the same, whatever
\* the outcome of the reference fetch in each run.
C8_Reproducible ==
    \A i, j \in DOMAIN checksums : checksums[i] = checksums[j]

----------------------------------------------------------------------------
(* Stages 2, 3, 5, 6 as a state machine: the scripts run in the order 02, 03, 05, 06 *)

\* bounds of the join inputs
MaxRefRows == 2     \* rows of an ACS reference table
MaxBlsRows == 2     \* rows of the BLS annual table

\* a record of July 2024 whose amount cell is empty
RowNoAmount == <<S(<<"9", "2", "0", "8", "4">>), D(2024, 7, 1), NaN, S(<<"V", "i", "s", "t", "a">>)>>

\* clean LIHEAP tables stage 2 can find: outputs of stage 1
CleanTables ==
    {run_pipeline(<<SourceFile(1, <<>>, HeaderFull, rows)>>, TRUE) :
        rows \in {<<RowLate>>, <<RowVista>>, <<RowVista, RowBlankCity>>, <<RowBadZip, RowVista>>,
                  <<RowVista, RowPowayDup, RowBlankCity>>, <<RowBadFields, RowLate>>,
                  <<RowVista, RowNoAmount>>}}


\* ACS median income, sheet "Data Clean", as read (after the rename of line 89)
IncomeRows ==
    <<[ZIPCODE |-> I(92084), Median_Income |-> I(70000)],
      [ZIPCODE |-> I(92084), Median_Income |-> I(65000)],
      [ZIPCODE |-> I(91902), Median_Income |-> NaN]>>
\* the same sheet with an empty ZIPCODE cell: pandas reads the column as float64
IncomeFloatZip ==
    <<[ZIPCODE |-> F(9208400), Median_Income |-> I(70000)],
      [ZIPCODE |-> NaN, Median_Income |-> I(40000)]>>
IncomeTables == SubTables(IncomeRows, MaxRefRows) \cup {IncomeFloatZip}

\* ACS population, sheet "Clean data", as read
PopulationRows ==
    <<[ZIPCODE |-> I(92084), Population |-> I(50000)],
      [ZIPCODE |-> I(92084), Population |-> I(50000)],
      [ZIPCODE |-> I(91902), Population |-> I(18000)]>>
PopulationTables == {SubSeq(PopulationRows, 1, 1), SubSeq(PopulationRows, 1, 2),
                     SubSeq(PopulationRows, 2, 3)}

\* BLS annual rows (sheet Full_Years_2023_2024 of stage 4), sorted by County, Year
\* as stage 4 leaves them; two series of San Diego County and one of Imperial
BlsAnnual ==
    <<[Year |-> I(2024), unemployment_rate |-> F(1690), County |-> S(<<"I", "m", "p", "e", "r", "i", "a", "l", " ", "C", "o", "u", "n", "t", "y">>),
       Series_ID |-> S(<<"L", "A", "U", "C", "N", "0", "6", "0", "2", "5", "0", "0", "0", "0", "0", "0", "0", "0", "0", "3">>)],
      [Year |-> I(2023), unemployment_rate |-> F(390), County |-> S(<<"S", "a", "n", " ", "D", "i", "e", "g", "o", " ", "C", "o", "u", "n", "t", "y">>),
       Series_ID |-> S(<<"L", "A", "U", "C", "N", "0", "6", "0", "7", "3", "0", "0", "0", "0", "0", "0", "0", "0", "0", "3">>)],
      [Year |-> I(2024), unemployment_rate |-> F(440), County |-> S(<<"S", "a", "n", " ", "D", "i", "e", "g", "o", " ", "C", "o", "u", "n", "t", "y">>),
       Series_ID |-> S(<<"L", "A", "U", "C", "N", "0", "6", "0", "7", "3", "0", "0", "0", "0", "0", "0", "0", "0", "0", "3">>)],
      [Year |-> I(2024), unemployment_rate |-> F(450), County |-> S(<<"S", "a", "n", " ", "D", "i", "e", "g", "o", " ", "C", "o", "u", "n", "t", "y">>),
       Series_ID |-> S(<<"L", "A", "U", "C", "N", "0", "6", "0", "7", "3", "0", "0", "0", "0", "0", "0", "0", "0", "0", "4">>)]>>
BlsTables == SubTables(BlsAnnual, MaxBlsRows)

\* HUD ZIP-county crosswalk rows, as read
XwVista == [ZIP |-> I(92084), COUNTY |-> I(6073), USPS_ZIP_PREF_STATE |-> S(<<"C", "A">>), TOT_RATIO |-> F(100)]
XwBonitaSD == [ZIP |-> I(91902), COUNTY |-> I(6073), USPS_ZIP_PREF_STATE |-> S(<<"C", "A">>), TOT_RATIO |-> F(60)]
XwBonitaImp == [ZIP |-> I(91902), COUNTY |-> I(6025), USPS_ZIP_PREF_STATE |-> S(<<"c", "a">>), TOT_RATIO |-> F(60)]
XwBonitaLA == [ZIP |-> I(91902), COUNTY |-> I(6037), USPS_ZIP_PREF_STATE |-> S(<<"C", "A">>), TOT_RATIO |-> F(40)]
XwNevada == [ZIP |-> I(89019), COUNTY |-> I(32003), USPS_ZIP_PREF_STATE |-> S(<<"N", "V">>), TOT_RATIO |-> F(100)]
Crosswalks ==
    {<<>>, <<XwVista>>, <<XwVista, XwBonitaLA, XwBonitaSD>>,
     <<XwBonitaImp, XwBonitaSD, XwNevada>>, <<XwNevada, XwBonitaLA, XwVista>>}

InitJoin ==
    /\ InitNorm({<<>>})
    /\ BlsOff
    /\ pcJ = "s2"
    /\ liheap_clean = <<>>
    /\ liheap_zip_year = <<>>
    /\ df_income = <<>>
    /\ df_population = <<>>
    /\ liheap_acs = <<>>
    /\ df_bls = <<>>
    /\ df_bls_clean = <<>>
    /\ df_xw = <<>>
    /\ df_zip_primary = <<>>
    /\ df_zip_unemp = <<>>
    /\ df_final = <<>>

\* python 02_aggregate_liheap_by_zip.py, with one of the given files at
\* INPUT_FILE; pd.read_excel raises FileNotFoundError when there is none
AggregateLiheapByZipFrom(input_files) ==
    /\ pcJ = "s2"
    /\ \E file \in input_files :
          IF file.written
          THEN /\ liheap_clean' = file.rows
               /\ liheap_zip_year' = aggregate_liheap_by_zip(file.rows)
               /\ pcJ' = "s3"
          ELSE /\ pcJ' = "aborted"
               /\ UNCHANGED <<liheap_clean, liheap_zip_year>>
    /\ UNCHANGED <<df_income, df_population, liheap_acs, df_bls, df_bls_clean, df_xw, df_zip_primary,
                   df_zip_unemp, df_final>>
    /\ UNCHANGED varsNorm
    /\ UNCHANGED varsBls

AggregateLiheapByZip == AggregateLiheapByZipFrom({Written(clean) : clean \in CleanTables})

\* python 03_join_liheap_acs_data.py, with the given ACS sheets
JoinLiheapAcsWith(income_tables, population_tables) ==
    /\ pcJ = "s3"
    /\ \E income \in income_tables, population \in population_tables :
          /\ df_income' = income
          /\ df_population' = population
          /\ liheap_acs' = join_liheap_acs(liheap_zip_year, income, population)
    /\ pcJ' = "s5"
    /\ UNCHANGED <<liheap_clean, liheap_zip_year, df_bls, df_bls_clean, df_xw, df_zip_primary, df_zip_unemp, df_final>>
    /\ UNCHANGED varsNorm
    /\ UNCHANGED varsBls

JoinLiheapAcs == JoinLiheapAcsWith(IncomeTables, PopulationTables)

\* python 05_build_bls_laus_ca_county_full_from_ui.py, with BLS_PATH and XW_PATH
\* holding one of the given files; FileNotFoundError when BLS_PATH is absent
BuildZipUnemploymentFrom(bls_files, xw_files) ==
    /\ pcJ = "s5"
    /\ \E file \in bls_files, xw \in xw_files :
          IF ~file.written
          THEN /\ pcJ' = "aborted"
               /\ UNCHANGED <<df_bls, df_xw, df_bls_clean, df_zip_primary, df_zip_unemp>>
          ELSE /\ df_bls' = file.rows
               /\ df_xw' = xw
               /\ IF bls_has_required(file.rows)
                  THEN /\ df_bls_clean' = bls_clean(file.rows)
                       /\ df_zip_primary' = zip_primary(xw)
                       /\ df_zip_unemp' = zip_unemployment(zip_primary(xw), file.rows)
                       /\ pcJ' = "s6"
                  ELSE /\ pcJ' = "aborted"
                       /\ UNCHANGED <<df_bls_clean, df_zip_primary, df_zip_unemp>>
    /\ UNCHANGED <<liheap_clean, liheap_zip_year, df_income, df_population, liheap_acs, df_final>>
    /\ UNCHANGED varsNorm
    /\ UNCHANGED varsBls

BuildZipUnemployment == BuildZipUnemploymentFrom({Written(bls) : bls \in BlsTables}, Crosswalks)


\* python 06_join_liheap_acs_unemployment.py
JoinLiheapAcsUnemployment ==
    /\ pcJ = "s6"
    /\ df_final' = join_liheap_acs_unemployment(liheap_acs, df_zip_unemp)
    /\ pcJ' = "done"
    /\ UNCHANGED <<liheap_clean, liheap_zip_year, df_income, df_population, liheap_acs, df_bls, df_bls_clean, df_xw,
                   df_zip_primary, df_zip_unemp>>
    /\ UNCHANGED varsNorm
    /\ UNCHANGED varsBls

NextJoin ==
    \/ AggregateLiheapByZip
    \/ JoinLiheapAcs
    \/ BuildZipUnemployment
    \/ JoinLiheapAcsUnemployment

SpecJoin == InitJoin /\ [][NextJoin]_vars

----------------------------------------------------------------------------
(* Claims about the joins *)

\* C1: after the two left joins of stage 3 on Zip_Code the table has exactly as
\* many rows as the aggregated input table, whatever the income and population
\* tables contain.
C1_Stage3KeepsRowCount ==
    pcJ \in {"s5", "s6", "done"} => Len(liheap_acs) = Len(liheap_zip_year)

\* C2: the final table of stage 6 has exactly one row per row of the stage-3
\* output, whatever the stage-5 table; a row without a match keeps its place
\* with unemployment_rate, County and County_FIPS missing.
C2_Stage6OneRowPerZipYear ==
    pcJ = "done" =>
        /\ Len(df_final) = Len(liheap_acs)
        /\ \A i \in DOMAIN df_final :
              (\A j \in DOMAIN unemp_clean(df_zip_unemp) :
                    zip_year_key(unemp_clean(df_zip_unemp)[j]) # zip_year_key(df_final[i]))
                 => /\ isna(df_final[i].unemployment_rate)
                    /\ isna(df_final[i].County)
                    /\ isna(df_final[i].County_FIPS)

\* the BLS rows of a county of the assignment table
BlsRowsOf(fips) == {j \in DOMAIN df_bls : county_fips_of(df_bls[j].Series_ID) = fips.s}

\* rows the stage-5 output holds for the first n ZIPs of the assignment table
RowsPerZipYear(n) ==
    LET Rows[i \in 0..n] ==
            IF i = 0 THEN 0
            ELSE LET k == Cardinality(BlsRowsOf(df_zip_primary[i].County_FIPS))
                 IN  Rows[i - 1] + (IF k = 0 THEN 1 ELSE k)
    IN  Rows[n]

\* C3 as stated: the stage-5 join on County_FIPS yields exactly as many rows
\* as the assignment table, one per ZIP.
C3_OneRowPerZip ==
    pcJ \in {"s6", "done"} => Len(df_zip_unemp) = Len(df_zip_primary)

\* C3 amended: the stage-5 join yields, for each ZIP of the assignment table
\* and in the table's order, one row per BLS row of the ZIP's county, and a
\* single row with Year, County and unemployment_rate missing when the county
\* has no BLS row; no ZIP is dropped.
C3_OneRowPerZipAndBlsRow ==
    pcJ \in {"s6", "done"} =>
        /\ Len(df_zip_unemp) = RowsPerZipYear(Len(df_zip_primary))
        /\ \A i \in DOMAIN df_zip_primary :
              LET mine == {r \in DOMAIN df_zip_unemp :
                              df_zip_unemp[r].Zip_Code = df_zip_primary[i].Zip_Code}
                  k == Cardinality(BlsRowsOf(df_zip_primary[i].County_FIPS))
              IN  /\ Cardinality(mine) = (IF k = 0 THEN 1 ELSE k)
                  /\ k = 0 => \A r \in mine : /\ isna(df_zip_unemp[r].Year)
                                              /\ isna(df_zip_unemp[r].County)
                                              /\ isna(df_zip_unemp[r].unemployment_rate)
                  /\ \A r \in mine :
                        df_zip_unemp[r].County_FIPS = df_zip_primary[i].County_FIPS

\* C3 witness: an assignment of two ZIPs, one whose county has two BLS rows
\* and one whose county has none
C3_Witness ==
    /\ pcJ = "s6"
    /\ Len(df_zip_primary) = 2
    /\ \E i \in DOMAIN df_zip_primary :
          Cardinality(BlsRowsOf(df_zip_primary[i].County_FIPS)) = 2
    /\ \E i \in DOMAIN df_zip_primary :
          Cardinality(BlsRowsOf(df_zip_primary[i].County_FIPS)) = 0

\* --- header detection as the specification words it ---

\* a cell that is not empty
NonEmpty(v) == ~isna(v)
\* a non-empty cell whose text contains a letter
Alphabetic(v) == NonEmpty(v) /\ contains_alpha(astype_str(v))
\* a row with at least 3 non-empty cells and at least 2 alphabetic cells
HeaderShaped(row) ==
    /\ Cardinality({j \in DOMAIN row : NonEmpty(row[j])}) >= 3
    /\ Cardinality({j \in DOMAIN row : Alphabetic(row[j])}) >= 2
\* the smallest index of a header-shaped row within the first max_rows rows, else 0
FirstHeaderShaped(grid) ==
    LET hits == {i \in 0..(Min(max_rows, Len(grid)) - 1) : HeaderShaped(grid[i + 1])}
    IN  IF hits = {} THEN 0 ELSE CHOOSE i \in hits : \A k \in hits : i <= k

\* C9: for every file read, detect_header_row returns the smallest row index
\* within the first 10 rows whose row has at least 3 non-empty cells and at
\* least 2 cells containing a letter (empty cells counting towards neither),
\* and 0 when there is no such row.
C9_HeaderDetection ==
    \A k \in DOMAIN header_rows :
        header_rows[k] = FirstHeaderShaped(excel_files[k].grid)

\* --- column validation ---

\* the header row pandas used for file k of this run, as texts
HeaderTexts(k) ==
    LET header == excel_files[k].grid[header_rows[k] + 1]
    IN  {normalize_column_name(raw_column_name(header[j], j)) : j \in DOMAIN header}

\* canonical column c is present in file k: some header text is c or a known
\* spelling of c
Present(k, c) ==
    \E h \in HeaderTexts(k) : h = c \/ <<h, c>> \in COLUMN_MAPPING

MissingOf(k) == {c \in Range(REQUIRED_STRICT) : ~Present(k, c)}

\* the files of this run that handed rows to the pipeline
Contributing ==
    UNION {{normalized_dfs[i][r].SourceFile : r \in DOMAIN normalized_dfs[i]} :
              i \in DOMAIN normalized_dfs}

\* C10: a file contributes rows iff Zip_Code, Created_On and Pledge_Amount are
\* all present after whitespace normalization and mapping of its headers; a
\* rejected file is recorded exactly once in skipped_files, with its name and
\* exactly its missing required columns; a file without City is not rejected
\* for that and gets a City column that is missing in every row.
C10_ColumnValidation ==
    \A k \in DOMAIN header_rows :
        LET name == excel_files[k].name
            entries == {i \in DOMAIN skipped_files : skipped_files[i][1] = name}
        IN  /\ (name \in Contributing) <=> (MissingOf(k) = {})
            /\ MissingOf(k) # {} =>
                  /\ Cardinality(entries) = 1
                  /\ \A i \in entries :
                        /\ Range(skipped_files[i][2]) = MissingOf(k)
                        /\ Len(skipped_files[i][2]) = Cardinality(MissingOf(k))
            /\ MissingOf(k) = {} =>
                  /\ entries = {}
                  /\ ~Present(k, ColCity) =>
                        \A i \in DOMAIN normalized_dfs : \A r \in DOMAIN normalized_dfs[i] :
                            normalized_dfs[i][r].SourceFile = name
                                => normalized_dfs[i][r].City = NaN
            /\ pc = "clean" =>
                  ((\E r \in DOMAIN df_all : df_all[r].SourceFile = name)
                      <=> MissingOf(k) = {})

\* C10 witness: a run that rejected a file lacking two required columns and
\* accepted a file that has no City column
C10_Witness ==
    /\ pc = "clean"
    /\ \E i \in DOMAIN skipped_files : Len(skipped_files[i][2]) = 2
    /\ \E k \in DOMAIN header_rows :
          /\ MissingOf(k) = {}
          /\ ~Present(k, ColCity)
          /\ \E r \in DOMAIN df_all : df_all[r].SourceFile = excel_files[k].name

----------------------------------------------------------------------------
(* Claims about loading, City backfill, the date filter and the cleaners *)

\* C11: a run aborts when no input file is found and when no file survives
\* column validation, and then neither the combined nor the final table is
\* written; a run never aborts while some file survived, whatever the number
\* of rejected files.
C11_FatalPreconditions ==
    /\ pc = "aborted" =>
          /\ \/ excel_files = <<>>
             \/ /\ Len(header_rows) = Len(excel_files)
                /\ \A k \in DOMAIN excel_files : MissingOf(k) # {}
          /\ ~combined_output.written
          /\ ~final_output.written
    /\ (runs > 0 /\ excel_files = <<>>) => pc = "aborted"
    /\ pc \notin {"idle", "load", "aborted"} =>
          \E k \in DOMAIN header_rows : MissingOf(k) = {}
    /\ (excel_files # <<>> /\ Len(header_rows) = Len(excel_files)
            /\ \A k \in DOMAIN excel_files : MissingOf(k) # {}) =>
          /\ pc \in {"load", "aborted"}
          /\ ~combined_output.written
          /\ ~final_output.written

\* C11 witness: a run that aborted after rejecting both of its two files
C11_Witness ==
    pc = "aborted" /\ Len(excel_files) = 2 /\ Len(skipped_files) = 2

\* the table handed to fill_missing_cities in this run
deduped_rows == deduplicate(cleaned_rows)

\* number of rows of df with ZIP z whose City is present and normalizes to c
CityCount(df, z, c) ==
    Cardinality({i \in DOMAIN df : /\ df[i].Zip_Code = S(z)
                                   /\ ~is_missing_text(df[i].City)
                                   /\ upper(strip(astype_str(df[i].City))) = c})
CitiesOf(df) ==
    {upper(strip(astype_str(df[i].City))) : i \in {k \in DOMAIN df : ~is_missing_text(df[k].City)}}

\* C12: the internal mapping has one entry for each ZIP with a record whose
\* City is present and none for any other ZIP; the entry is the normalized City
\* with the highest count among the ZIP's records, the lexicographically
\* smallest one among tied counts; every permutation of the rows gives the
\* same mapping.
C12_InternalMajorityMapping ==
    pc \in {"filter", "save", "done"} =>
        LET df == deduped_rows
        IN  /\ {e[1] : e \in internal_zip_city} =
                    {df[i].Zip_Code.s : i \in {k \in DOMAIN df :
                        ~isna(df[k].Zip_Code) /\ ~is_missing_text(df[k].City)}}
            /\ \A e, f \in internal_zip_city : e[1] = f[1] => e = f
            /\ \A e \in internal_zip_city :
                  /\ CityCount(df, e[1], e[2]) >= 1
                  /\ \A c \in CitiesOf(df) :
                        /\ CityCount(df, e[1], c) <= CityCount(df, e[1], e[2])
                        /\ CityCount(df, e[1], c) = CityCount(df, e[1], e[2]) => StrLeq(e[2], c)
            /\ \A p \in Permutations(DOMAIN df) :
                  build_zip_city_from_internal(Permuted(df, p)) = internal_zip_city

\* C12 witness: Ramona and Poway are tied for ZIP 92064 (Ramona's row first),
\* and the mapping holds POWAY
C12_Witness ==
    /\ pc = "filter"
    /\ CityCount(deduped_rows, <<"9", "2", "0", "6", "4">>, <<"R", "A", "M", "O", "N", "A">>) = 1
    /\ CityCount(deduped_rows, <<"9", "2", "0", "6", "4">>, <<"P", "O", "W", "A", "Y">>) = 1
    /\ <<<<"9", "2", "0", "6", "4">>, <<"P", "O", "W", "A", "Y">>>> \in internal_zip_city

\* the city a mapping (a set of <<ZIP, city>> pairs) holds for a ZIP cell
HasZip(map, zip) == zip.t = "str" /\ \E e \in map : e[1] = zip.s
CityIn(map, zip) == (CHOOSE e \in map : e[1] = zip.s)[2]

\* C13: fill_missing_cities leaves a present City as it is (normalized); a
\* record whose City is missing, blank or "NAN" gets the internal mapping's city
\* of its ZIP, else the external mapping's, and stays unfilled when its ZIP is
\* in neither mapping.
C13_BackfillPriority ==
    pc = "filter" =>
        /\ Len(df_all) = Len(deduped_rows)
        /\ \A i \in DOMAIN df_all :
              LET before == deduped_rows[i]
                  after == df_all[i]
              IN  /\ [after EXCEPT !.City = before.City] = before
                  /\ IF ~is_missing_text(before.City)
                     THEN after.City = S(upper(strip(astype_str(before.City))))
                     ELSE IF HasZip(internal_zip_city, before.Zip_Code)
                     THEN after.City = S(CityIn(internal_zip_city, before.Zip_Code))
                     ELSE IF HasZip(external_zip_city, before.Zip_Code)
                     THEN after.City = S(CityIn(external_zip_city, before.Zip_Code))
                     ELSE is_missing_text(after.City)

\* C14: load_geonames_zip_city returns the remote mapping when the fetch
\* succeeded, else the local file's mapping when that file can be read, else
\* the empty mapping; the local file is looked for only after the fetch failed;
\* no outcome aborts the run, and with an empty mapping the cities are those of
\* the internal fill.
C14_ReferenceFetchDegradation ==
    /\ pc = "aborted" => (excel_files = <<BadFile(1)>> /\ http_ok = "not tried")
    /\ local_tried => http_ok = "failed"
    /\ pc \in {"filter", "save", "done"} =>
          /\ http_ok \in {"ok", "failed"}
          /\ local_tried = (http_ok = "failed")
          /\ external_zip_city =
                IF http_ok = "ok"
                THEN {<<<<"9", "1", "9", "0", "2">>, <<"B", "O", "N", "I", "T", "A">>>>, <<<<"9", "2", "0", "6", "4">>, <<"P", "O", "W", "A", "Y">>>>}
                ELSE IF geonames_file = GeoNamesLocal
                THEN {<<<<"9", "2", "0", "8", "4">>, <<"V", "I", "S", "T", "A">>>>, <<<<"9", "2", "0", "6", "4">>, <<"E", "S", "C", "O", "N", "D", "I", "D", "O">>>>}
                ELSE {}
    /\ (pc = "filter" /\ external_zip_city = {}) =>
          /\ Len(df_all) = Len(deduped_rows)
          /\ \A i \in DOMAIN df_all :
                df_all[i].City =
                    IF ~is_missing_text(deduped_rows[i].City)
                    THEN S(upper(strip(astype_str(deduped_rows[i].City))))
                    ELSE IF HasZip(internal_zip_city, deduped_rows[i].Zip_Code)
                    THEN S(CityIn(internal_zip_city, deduped_rows[i].Zip_Code))
                    ELSE S(<<"N", "A", "N">>)
    /\ (pc = "done" /\ runs > 0) => final_output.written

\* C14 witness: a run finished although the fetch raised and the local file
\* could not be parsed; a blank City was left unfilled
C14_Witness ==
    /\ pc = "done"
    /\ http_ok = "failed"
    /\ geonames_file = Malformed
    /\ external_zip_city = {}
    /\ \E i \in DOMAIN final_output.rows : final_output.rows[i].City = S(<<"N", "A", "N">>)

\* a YearMo text of the form YYYY-MM, and the month it names counted from year 0
IsYearMo(s) ==
    /\ Len(s) = 7
    /\ s[5] = "-"
    /\ \A i \in {1, 2, 3, 4, 6, 7} : IsDigit(s[i])
MonthIndex(s) == 12 * DigitsToInt(SubSeq(s, 1, 4)) + DigitsToInt(SubSeq(s, 6, 7))

\* start <= YearMo <= end, an unset bound leaving its side open
InDateRange(r, start, end) ==
    /\ start # None => MonthIndex(start.s) <= MonthIndex(r.YearMo.s)
    /\ end # None => MonthIndex(r.YearMo.s) <= MonthIndex(end.s)

\* what C15 asks of one call of filter_by_date_range
DateFiltered(before, after, start, end) ==
    /\ (start = None /\ end = None) => after = before
    /\ after = SelectSeq(before, LAMBDA r : r \in Range(after))
    /\ SelectSeq(after, LAMBDA r : IsYearMo(r.YearMo.s)) =
         SelectSeq(before, LAMBDA r : IsYearMo(r.YearMo.s) /\ InDateRange(r, start, end))
    /\ (start = DefaultStart /\ end = DefaultEnd) =>
          \A i \in DOMAIN before :
             /\ before[i].YearMo.s \in {<<"2", "0", "2", "3", "-", "0", "1">>, <<"2", "0", "2", "5", "-", "0", "6">>} => before[i] \in Range(after)
             /\ before[i].YearMo.s \in {<<"2", "0", "2", "2", "-", "1", "2">>, <<"2", "0", "2", "5", "-", "0", "7">>} => before[i] \notin Range(after)

\* C15: the date filter keeps, in their order, exactly the records whose month
\* lies between the bounds that are set, both inclusive, and returns the table
\* unchanged when no bound is set; with 2023-01 .. 2025-06 the months 2023-01
\* and 2025-06 stay and 2022-12 and 2025-07 go.
C15_DateRangeFilter ==
    [][(pc = "filter" /\ pc' = "save") =>
            DateFiltered(df_all, df_all', start_year_month, end_year_month)]_vars

\* C15 witness: filtered with 2023-01 .. 2025-06, a table of three records kept
\* exactly its records of 2023-01 and 2025-06
C15_Witness ==
    /\ pc = "save"
    /\ start_year_month = DefaultStart
    /\ end_year_month = DefaultEnd
    /\ Len(deduped_rows) = 3
    /\ {df_all[i].YearMo.s : i \in DOMAIN df_all} = {<<"2", "0", "2", "3", "-", "0", "1">>, <<"2", "0", "2", "5", "-", "0", "6">>}

\* the text of a value without a trailing ".0"
TextOfZip(v) ==
    LET s == astype_str(v)
    IN  IF Len(s) >= 2 /\ SubSeq(s, Len(s) - 1, Len(s)) = <<".", "0">>
        THEN SubSeq(s, 1, Len(s) - 2) ELSE s
FiveDigitsAt(s, i) == i + 4 <= Len(s) /\ \A k \in i..(i + 4) : IsDigit(s[k])

\* what C16 asks of clean_zip for one raw value and its result
ZipCleaned(raw, zip) ==
    LET s == TextOfZip(raw)
    IN  /\ isna(zip) \/ IsZip5(zip)
        /\ isna(zip) <=> ~\E i \in DOMAIN s : FiveDigitsAt(s, i)
        /\ IsZip5(zip) =>
              \E i \in DOMAIN s : /\ FiveDigitsAt(s, i)
                                  /\ zip.s = SubSeq(s, i, i + 4)
                                  /\ \A j \in 1..(i - 1) : ~FiveDigitsAt(s, j)
        /\ raw = F(9210100) => zip = S(<<"9", "2", "1", "0", "1">>)
        /\ raw = S(<<"C", "A", " ", "9", "2", "1">>) => isna(zip)

\* C16: clean_zip gives a missing value or a text of exactly 5 digits: the
\* leftmost 5 consecutive digits of the value's text without a trailing ".0",
\* missing when there are none; 92101.0 gives "92101", "CA 921" gives missing.
C16_ZipCleaner ==
    pc = "dedup" =>
        /\ Len(df_all) = Len(loaded_rows)
        /\ \A i \in DOMAIN df_all : ZipCleaned(loaded_rows[i].Zip_Code, df_all[i].Zip_Code)

\* C16 witness: the text "ab12345cd67890", with two runs of 5 digits, was cleaned
C16_Witness ==
    /\ pc = "dedup"
    /\ Len(df_all) = 1
    /\ loaded_rows[1].Zip_Code = S(<<"a", "b", "1", "2", "3", "4", "5", "c", "d", "6", "7", "8", "9", "0">>)
    /\ df_all[1].Zip_Code = S(<<"1", "2", "3", "4", "5">>)

\* the text of a value with every character but digits, dot and minus removed
NumericChars(v) == SelectSeq(astype_str(v), LAMBDA c : c \in Range(DigitChars) \cup {".", "-"})

\* a decimal number: an optional minus, then digits with at most one dot among
\* them and at least one digit
IsNumberText(t) ==
    LET body == IF t # <<>> /\ t[1] = "-" THEN Tail(t) ELSE t
    IN  /\ \A i \in DOMAIN body : body[i] # "-"
        /\ Cardinality({i \in DOMAIN body : body[i] = "."}) <= 1
        /\ \E i \in DOMAIN body : IsDigit(body[i])

\* the amounts of AmountValues that are numbers, in hundredths
ExpectedAmounts ==
    {<<S(<<"$", "1", ",", "2", "3", "4", ".", "5", "6", " ">>), 123456>>, <<S(<<"-", "5">>), 0 - 500>>, <<S(<<"(", "7", ".", "5", ")">>), 750>>,
     <<S(<<".", "5">>), 50>>, <<I(100), 10000>>, <<F(12345), 12345>>}

\* C17: clean_pledge_amount gives the number spelled by the digits, dots and
\* minus signs of the value's text, and a missing value when they spell no
\* number (none left included); "$1,234.56 " gives 1234.56, "N/A" gives missing;
\* no value makes the run abort.
C17_PledgeAmountCleaner ==
    /\ pc = "aborted" => excel_files = <<BadFile(1)>>
    /\ pc = "dedup" =>
          /\ Len(df_all) = Len(loaded_rows)
          /\ \A i \in DOMAIN df_all :
                LET raw == loaded_rows[i].Pledge_Amount
                    amount == df_all[i].Pledge_Amount
                IN  /\ isna(amount) <=> ~IsNumberText(NumericChars(raw))
                    /\ ~isna(amount) => <<raw, amount.c>> \in ExpectedAmounts
                    /\ raw = S(<<"N", "/", "A">>) => isna(amount)

\* C17 witness: the amount "$1,234.56 " was cleaned to 1234.56
C17_Witness ==
    /\ pc = "dedup"
    /\ Len(df_all) = 1
    /\ loaded_rows[1].Pledge_Amount = S(<<"$", "1", ",", "2", "3", "4", ".", "5", "6", " ">>)
    /\ df_all[1].Pledge_Amount = F(123456)

\* the records stage 2 read, each with the ZIP key and the year it is grouped by
Stage2Records ==
    LET df == read_excel_liheap(liheap_clean)
    IN  [i \in DOMAIN df |->
            [zip |-> zfill(strip_dot_zero(astype_str(df[i].Zip_Code)), 5),
             year |-> IF df[i].YearMo.t = "str" /\ IsYearMo(df[i].YearMo.s)
                      THEN DigitsToInt(SubSeq(df[i].YearMo.s, 1, 4)) ELSE 0,
             amount |-> df[i].Pledge_Amount]]
GroupOf(zip, year) ==
    {i \in DOMAIN Stage2Records : Stage2Records[i].zip = zip /\ Stage2Records[i].year = year}
RECURSIVE SumOver(_)
SumOver(idx) ==
    IF idx = {} THEN 0
    ELSE LET i == CHOOSE x \in idx : TRUE
             a == Stage2Records[i].amount
         IN  (IF isna(a) THEN 0 ELSE IF a.t = "int" THEN 100 * a.n ELSE a.c) + SumOver(idx \ {i})

\* C18: the stage-2 output has one row for each (Zip_Code, Year) with a record
\* of a year in 2023 .. 2025 and no other row; its total_pledge is the sum of
\* the amounts of the pair's records and its record_count their number.
C18_AggregateByZipYear ==
    pcJ \in {"s3", "s5", "s6", "done"} =>
        LET pairs == {<<Stage2Records[i].zip, Stage2Records[i].year>> :
                        i \in {k \in DOMAIN Stage2Records : Stage2Records[k].year \in 2023..2025}}
        IN  /\ {<<liheap_zip_year[g].Zip_Code.s, liheap_zip_year[g].Year.n>> :
                    g \in DOMAIN liheap_zip_year} = pairs
            /\ Len(liheap_zip_year) = Cardinality(pairs)
            /\ \A g \in DOMAIN liheap_zip_year :
                  LET group == GroupOf(liheap_zip_year[g].Zip_Code.s, liheap_zip_year[g].Year.n)
                  IN  /\ liheap_zip_year[g].total_pledge = F(SumOver(group))
                      /\ liheap_zip_year[g].record_count = I(Cardinality(group))

----------------------------------------------------------------------------
(* Stage 4: 04_etl_bls_laus_profile_to_annual.py *)

\* str.replace(old, ""): every occurrence of old removed, left to right
RECURSIVE remove_all(_, _)
remove_all(s, old) ==
    IF Len(s) < Len(old) THEN s
    ELSE IF SubSeq(s, 1, Len(old)) = old
         THEN remove_all(SubSeq(s, Len(old) + 1, Len(s)), old)
         ELSE <<s[1]>> \o remove_all(Tail(s), old)

\* the Python test: sub in s
contains(s, sub) ==
    \E i \in 1..(Len(s) - Len(sub) + 1) : SubSeq(s, i, i + Len(sub) - 1) = sub

\* raw.shape[1]: the number of columns of a sheet read with header=None
sheet_width(raw) == IF raw = <<>> THEN 0 ELSE Len(raw[1])

\* _find_table_header_row: the first row whose first two cells read "Year" and
\* "Period", as a position in raw (None when there is none)
find_table_header_row(raw) ==
    LET hits == {i \in DOMAIN raw :
                    /\ strip(astype_str(raw[i][1])) = <<"Y", "e", "a", "r">>
                    /\ strip(astype_str(raw[i][2])) = <<"P", "e", "r", "i", "o", "d">>}
    IN  IF sheet_width(raw) < 2 \/ hits = {} THEN None
        ELSE I(CHOOSE i \in hits : \A k \in hits : i <= k)

\* _extract_meta(raw).get(key, ""): the value text of the last row with that
\* key among the rows whose first two cells are not both empty
meta_get(raw, key) ==
    LET rows == {i \in DOMAIN raw :
                    /\ ~(isna(raw[i][1]) /\ isna(raw[i][2]))
                    /\ strip(astype_str(raw[i][1])) = key}
    IN  IF rows = {} THEN <<>>
        ELSE strip(astype_str(raw[CHOOSE i \in rows : \A k \in rows : i >= k][2]))

\* _county_from_series_title, for a str
county_from_series_title(series_title) ==
    strip(remove_all(remove_all(remove_all(strip(series_title),
            <<"U", "n", "e", "m", "p", "l", "o", "y", "m", "e", "n", "t", " ", "R", "a", "t", "e", ":", " ">>), <<" ", "(", "U", ")">>), <<",", " ", "C", "A">>))

\* main, lines 157-160: the county name of a sheet
county_name_of(raw) ==
    LET title == county_from_series_title(meta_get(raw, <<"S", "e", "r", "i", "e", "s", " ", "T", "i", "t", "l", "e">>))
        area == meta_get(raw, <<"A", "r", "e", "a">>)
    IN  IF title # <<>> THEN title
        ELSE IF contains(area, <<"C", "o", "u", "n", "t", "y">>) THEN strip(remove_all(area, <<",", " ", "C", "A">>))
        ELSE <<>>

\* the column of a table read with header=header_idx that carries a name
\* (0 when no column does); the first of several columns with the same label
column_of(header, name) ==
    LET hits == {j \in DOMAIN header : header[j] = S(name)}
    IN  IF hits = {} THEN 0 ELSE CHOOSE j \in hits : \A k \in hits : j <= k

\* str.match(r"^M\d{2}$") and isin(["M01", ..., "M12"])
match_month_period(s) == Len(s) = 3 /\ s[1] = "M" /\ IsDigit(s[2]) /\ IsDigit(s[3])
MonthPeriods == {<<"M">> \o zfill(IntToStr(m), 2) : m \in 1..12}

\* pd.to_numeric(cell, errors="coerce")
to_numeric_cell(v) ==
    IF isna(v) THEN NaN
    ELSE IF v.t \in {"int", "float"} THEN v
    ELSE IF v.t = "str" /\ \A i \in DOMAIN v.s : IsDigit(v.s[i]) \/ v.s[i] \in {".", "-"}
    THEN to_numeric_coerce(v.s)
    ELSE NaN

\* Series.astype("Int64") of a numeric cell: an integer, missing stays missing;
\* a number with a fraction cannot be cast (TypeError)
can_cast_Int64(v) == isna(v) \/ v.t = "int" \/ v.c % 100 = 0
astype_Int64(v) == IF isna(v) THEN NaN ELSE IF v.t = "int" THEN v ELSE I(v.c \div 100)

\* Series.mean() of present numbers; a float, held in hundredths when that is
\* exact and with its numerator and denominator otherwise
mean(cells) ==
    LET total == sum_amounts(cells)
        n == Len(cells)
    IN  IF total % n = 0 THEN F(total \div n)
        ELSE [t |-> "float", c |-> total \div n, num |-> total, den |-> n]

\* a filter that stops at the pattern M\d{2} and lets M13 through
monthly_rows_matched(raw, header_idx) ==
    LET header == raw[header_idx]
        data == SubSeq(raw, header_idx + 1, Len(raw))
        df == [i \in DOMAIN data |->
                 [Year |-> data[i][column_of(header, <<"Y", "e", "a", "r">>)],
                  Period |-> S(strip(astype_str(data[i][column_of(header, <<"P", "e", "r", "i", "o", "d">>)]))),
                  value |-> data[i][column_of(header, <<"O", "b", "s", "e", "r", "v", "a", "t", "i", "o", "n", " ", "V", "a", "l", "u", "e">>)]]]
    IN  Filter(df, LAMBDA r : match_month_period(r.Period.s))

\* lines 173-184: the monthly rows of a sheet's table that survive the filters
monthly_rows(raw, header_idx) ==
    LET header == raw[header_idx]
        data == SubSeq(raw, header_idx + 1, Len(raw))
        df == [i \in DOMAIN data |->
                 [Year |-> data[i][column_of(header, <<"Y", "e", "a", "r">>)],
                  Period |-> S(strip(astype_str(data[i][column_of(header, <<"P", "e", "r", "i", "o", "d">>)]))),
                  value |-> data[i][column_of(header, <<"O", "b", "s", "e", "r", "v", "a", "t", "i", "o", "n", " ", "V", "a", "l", "u", "e">>)]]]
        matched == Filter(df, LAMBDA r : match_month_period(r.Period.s))
    IN  Filter(matched, LAMBDA r : r.Period.s \in MonthPeriods)

\* lines 182-196: the annual table of a sheet
annual_of(monthly, county_name, series_id, series_title) ==
    LET numeric == [i \in DOMAIN monthly |->
                      [Year |-> astype_Int64(to_numeric_cell(monthly[i].Year)),
                       Period |-> monthly[i].Period,
                       value |-> to_numeric_cell(monthly[i].value)]]
        df == Filter(numeric, LAMBDA r : ~isna(r.Year) /\ ~isna(r.value))
        years == {df[i].Year.n : i \in DOMAIN df}
        Sorted[k \in 0..Cardinality(years)] ==
            IF k = 0 THEN <<>>
            ELSE Append(Sorted[k - 1],
                        CHOOSE y \in years :
                            Cardinality({z \in years : z < y}) = k - 1)
    IN  [g \in 1..Cardinality(years) |->
            LET members == Filter(df, LAMBDA r : r.Year.n = Sorted[Cardinality(years)][g])
            IN  [Year |-> I(Sorted[Cardinality(years)][g]),
                 unemployment_rate |-> mean([i \in DOMAIN members |-> members[i].value]),
                 month_count |-> I(Cardinality({members[i].Period.s : i \in DOMAIN members})),
                 County |-> S(county_name),
                 Series_ID |-> S(series_id),
                 Series_Title |-> S(series_title)]]

\* one pass of the loop of lines 149-199 over a sheet: what happens to it
\* ("raise": the run ends with an exception) and the annual table it adds
process_sheet(raw) ==
    LET header_idx == find_table_header_row(raw)
        header == raw[header_idx.n]
        monthly == monthly_rows(raw, header_idx.n)
    IN  IF sheet_width(raw) < 2
        THEN [outcome |-> "raise", ann |-> <<>>]
        ELSE IF header_idx = None
        THEN [outcome |-> "no_table", ann |-> <<>>]
        ELSE IF column_of(header, <<"O", "b", "s", "e", "r", "v", "a", "t", "i", "o", "n", " ", "V", "a", "l", "u", "e">>) = 0
        THEN [outcome |-> "no_value_col", ann |-> <<>>]
        ELSE IF column_of(header, <<"Y", "e", "a", "r">>) = 0 \/ column_of(header, <<"P", "e", "r", "i", "o", "d">>) = 0
        THEN [outcome |-> "raise", ann |-> <<>>]
        ELSE IF \E i \in DOMAIN monthly : ~can_cast_Int64(to_numeric_cell(monthly[i].Year))
        THEN [outcome |-> "raise", ann |-> <<>>]
        ELSE [outcome |-> "processed",
              ann |-> annual_of(monthly, county_name_of(raw),
                                meta_get(raw, <<"S", "e", "r", "i", "e", "s", " ", "I", "D">>), meta_get(raw, <<"S", "e", "r", "i", "e", "s", " ", "T", "i", "t", "l", "e">>))]

county_year_key(r) == <<r.County, r.Year>>

\* lines 218-220: the complete years, without month_count, sorted
split_full(ann) ==
    LET full == Filter(ann, LAMBDA r : r.month_count.n = 12)
        dropped == [i \in DOMAIN full |->
                      [Year |-> full[i].Year,
                       unemployment_rate |-> full[i].unemployment_rate,
                       County |-> full[i].County,
                       Series_ID |-> full[i].Series_ID,
                       Series_Title |-> full[i].Series_Title]]
    IN  sort_values(dropped, county_year_key)

\* a split that also puts the complete years into the partial set
split_ytd_upto_12(ann) ==
    LET ytd == Filter(ann, LAMBDA r : r.month_count.n <= 12)
        flagged == [i \in DOMAIN ytd |->
                      [Year |-> ytd[i].Year,
                       unemployment_rate |-> ytd[i].unemployment_rate,
                       month_count |-> ytd[i].month_count,
                       County |-> ytd[i].County,
                       Series_ID |-> ytd[i].Series_ID,
                       Series_Title |-> ytd[i].Series_Title,
                       is_partial_year |-> TRUE]]
    IN  sort_values(flagged, county_year_key)

\* lines 222-224: the partial years, flagged, sorted
split_ytd(ann) ==
    LET ytd == Filter(ann, LAMBDA r : r.month_count.n < 12)
        flagged == [i \in DOMAIN ytd |->
                      [Year |-> ytd[i].Year,
                       unemployment_rate |-> ytd[i].unemployment_rate,
                       month_count |-> ytd[i].month_count,
                       County |-> ytd[i].County,
                       Series_ID |-> ytd[i].Series_ID,
                       Series_Title |-> ytd[i].Series_Title,
                       is_partial_year |-> TRUE]]
    IN  sort_values(flagged, county_year_key)

(* Stage 4: the inputs of the model *)

MaxSheets == 2      \* sheets of the BLS workbook

\* the rows above the table of a Profile sheet
MetaRows(series_id, series_title, area) ==
    <<<<S(<<"S", "e", "r", "i", "e", "s", " ", "T", "i", "t", "l", "e">>), S(series_title), NaN, NaN>>,
      <<S(<<"S", "e", "r", "i", "e", "s", " ", "I", "D">>), S(series_id), NaN, NaN>>,
      <<S(<<"A", "r", "e", "a">>), S(area), NaN, NaN>>,
      <<NaN, NaN, NaN, NaN>>>>
TableHeader == <<S(<<"Y", "e", "a", "r">>), S(<<"P", "e", "r", "i", "o", "d">>), S(<<"L", "a", "b", "e", "l">>), S(<<"O", "b", "s", "e", "r", "v", "a", "t", "i", "o", "n", " ", "V", "a", "l", "u", "e">>)>>

\* the rows of the months 1 .. Len(values) of a year, values in hundredths
MonthRows(year, values) ==
    [m \in DOMAIN values |->
        <<I(year), S(<<"M">> \o zfill(IntToStr(m), 2)), S(IntToStr(year)), F(values[m])>>]
\* the annual average row that BLS exports add
AnnualRow(year, value) == <<I(year), S(<<"M", "1", "3">>), S(<<"A", "n", "n", "u", "a", "l">>), F(value)>>

MetaSanDiego ==
    MetaRows(<<"L", "A", "U", "C", "N", "0", "6", "0", "7", "3", "0", "0", "0", "0", "0", "0", "0", "0", "0", "3">>, <<"U", "n", "e", "m", "p", "l", "o", "y", "m", "e", "n", "t", " ", "R", "a", "t", "e", ":", " ", "S", "a", "n", " ", "D", "i", "e", "g", "o", " ", "C", "o", "u", "n", "t", "y", ",", " ", "C", "A", " ", "(", "U", ")">>,
             <<"S", "a", "n", " ", "D", "i", "e", "g", "o", " ", "C", "o", "u", "n", "t", "y", ",", " ", "C", "A">>)
MetaImperial ==
    MetaRows(<<"L", "A", "U", "C", "N", "0", "6", "0", "2", "5", "0", "0", "0", "0", "0", "0", "0", "0", "0", "3">>, <<" ", "U", "n", "e", "m", "p", "l", "o", "y", "m", "e", "n", "t", " ", "R", "a", "t", "e", ":", " ", "I", "m", "p", "e", "r", "i", "a", "l", " ", "C", "o", "u", "n", "t", "y", ",", " ", "C", "A", " ", "(", "U", ")", " ">>,
             <<"I", "m", "p", "e", "r", "i", "a", "l", " ", "C", "o", "u", "n", "t", "y", ",", " ", "C", "A">>)
\* a sheet whose Series Title cell is empty: the county comes from Area
MetaAreaOnly ==
    <<<<S(<<"S", "e", "r", "i", "e", "s", " ", "I", "D">>), S(<<"L", "A", "U", "C", "N", "0", "6", "0", "7", "3", "0", "0", "0", "0", "0", "0", "0", "0", "0", "4">>), NaN, NaN>>,
      <<S(<<"A", "r", "e", "a">>), S(<<"S", "a", "n", " ", "D", "i", "e", "g", "o", " ", "C", "o", "u", "n", "t", "y", ",", " ", "C", "A">>), NaN, NaN>>>>

\* San Diego: the 12 months of 2024, the annual average of 2024, 3 months of 2025
SheetSanDiego ==
    MetaSanDiego \o <<TableHeader>>
    \o MonthRows(2024, <<450, 460, 440, 450, 450, 450, 450, 450, 450, 450, 450, 450>>)
    \o <<AnnualRow(2024, 990)>>
    \o MonthRows(2025, <<500, 510, 525>>)

\* Imperial: the 12 months of 2023 with March twice; of 2024 a month without a
\* value, a month whose period is padded, the annual average, a month whose
\* year does not parse and a footnote row
SheetImperial ==
    MetaImperial \o <<TableHeader>>
    \o MonthRows(2023, <<1700, 1700, 1700, 1700, 1700, 1700, 1700, 1700, 1700, 1700, 1700, 1700>>)
    \o <<<<S(<<"2", "0", "2", "3">>), S(<<"M", "0", "3">>), S(<<"2", "0", "2", "3">>), S(<<"1", "8", ".", "3">>)>>,
         <<I(2024), S(<<"M", "0", "1">>), S(<<"2", "0", "2", "4">>), S(<<"(", "P", ")">>)>>,
         <<I(2024), S(<<" ", "M", "0", "2", " ">>), S(<<"2", "0", "2", "4">>), I(16)>>,
         AnnualRow(2024, 1650),
         <<S(<<"n", ".", "a", ".">>), S(<<"M", "0", "3">>), NaN, F(1500)>>,
         <<S(<<"P", " ", ":", " ", "P", "r", "e", "l", "i", "m", "i", "n", "a", "r", "y">>), NaN, NaN, NaN>>>>

\* a series of San Diego without a Series Title: one month of 2024
SheetAreaOnly == MetaAreaOnly \o <<TableHeader>> \o MonthRows(2024, <<470>>)
\* sheets without a table, without the value column, with annual averages only
SheetNoTable == MetaSanDiego
SheetNoValue ==
    MetaSanDiego \o <<<<S(<<"Y", "e", "a", "r">>), S(<<"P", "e", "r", "i", "o", "d">>), S(<<"L", "a", "b", "e", "l">>), S(<<"V", "a", "l", "u", "e">>)>>>>
    \o MonthRows(2024, <<450>>)
SheetOnlyAnnual == MetaSanDiego \o <<TableHeader, AnnualRow(2024, 450)>>
\* a sheet without cells, a table whose Year label is padded, a year with a fraction
SheetEmpty == <<>>
SheetPaddedHeader ==
    MetaSanDiego \o <<<<S(<<"Y", "e", "a", "r", " ">>), S(<<"P", "e", "r", "i", "o", "d">>), S(<<"L", "a", "b", "e", "l">>), S(<<"O", "b", "s", "e", "r", "v", "a", "t", "i", "o", "n", " ", "V", "a", "l", "u", "e">>)>>>>
    \o MonthRows(2024, <<450>>)
SheetFractionalYear ==
    MetaSanDiego \o <<TableHeader, <<F(202450), S(<<"M", "0", "1">>), S(<<"2", "0", "2", "4">>), F(450)>>>>

Sheets == {SheetSanDiego, SheetImperial, SheetAreaOnly, SheetNoTable, SheetNoValue,
           SheetOnlyAnnual, SheetEmpty, SheetPaddedHeader, SheetFractionalYear}

\* BLS_PROFILE_XLSX: absent, or a workbook of 1 .. MaxSheets sheets
Workbooks ==
    {[exists |-> FALSE, sheets |-> <<>>]}
    \cup {[exists |-> TRUE, sheets |-> sh] : sh \in SeqsUpTo(Sheets, MaxSheets) \ {<<>>}}

----------------------------------------------------------------------------
(* Stage 4: main() as a state machine *)

InitBls ==
    /\ InitNorm({<<>>})
    /\ JoinIdle
    /\ pcB = "start"
    /\ xls \in Workbooks
    /\ sheet_idx = 1
    /\ annual_rows = <<>>
    /\ processed_sheets = 0
    /\ skipped_no_table = 0
    /\ skipped_no_value_col = 0
    /\ annual = <<>>
    /\ annual_full = NotWritten
    /\ annual_ytd = NotWritten

\* STEP 1: FileNotFoundError when the workbook is absent
OpenWorkbook ==
    /\ pcB = "start"
    /\ pcB' = IF xls.exists THEN "sheets" ELSE "aborted"
    /\ UNCHANGED <<xls, sheet_idx, annual_rows, processed_sheets, skipped_no_table,
                   skipped_no_value_col, annual, annual_full, annual_ytd>>
    /\ UNCHANGED varsNorm
    /\ UNCHANGED varsJoin

\* STEP 2: one pass of the loop over xls.sheet_names
ProcessSheet ==
    /\ pcB = "sheets"
    /\ sheet_idx <= Len(xls.sheets)
    /\ LET res == process_sheet(xls.sheets[sheet_idx])
       IN  /\ pcB' = IF res.outcome = "raise" THEN "aborted" ELSE "sheets"
           /\ annual_rows' = IF res.outcome = "processed"
                             THEN Append(annual_rows, res.ann) ELSE annual_rows
           /\ processed_sheets' = processed_sheets + (IF res.outcome = "processed" THEN 1 ELSE 0)
           /\ skipped_no_table' = skipped_no_table + (IF res.outcome = "no_table" THEN 1 ELSE 0)
           /\ skipped_no_value_col' =
                skipped_no_value_col + (IF res.outcome = "no_value_col" THEN 1 ELSE 0)
    /\ sheet_idx' = sheet_idx + 1
    /\ UNCHANGED <<xls, annual, annual_full, annual_ytd>>
    /\ UNCHANGED varsNorm
    /\ UNCHANGED varsJoin

\* STEP 3: RuntimeError when no sheet was processed, else the concatenation
ConsolidateAnnual ==
    /\ pcB = "sheets"
    /\ sheet_idx > Len(xls.sheets)
    /\ IF annual_rows = <<>>
       THEN pcB' = "aborted" /\ annual' = annual
       ELSE pcB' = "split" /\ annual' = concat(annual_rows)
    /\ UNCHANGED <<xls, sheet_idx, annual_rows, processed_sheets, skipped_no_table,
                   skipped_no_value_col, annual_full, annual_ytd>>
    /\ UNCHANGED varsNorm
    /\ UNCHANGED varsJoin

\* STEP 4-5: the split and the two sheets of OUT_ANNUAL_COMBINED
SplitAndSave ==
    /\ pcB = "split"
    /\ annual_full' = Written(split_full(annual))
    /\ annual_ytd' = Written(split_ytd(annual))
    /\ pcB' = "done"
    /\ UNCHANGED <<xls, sheet_idx, annual_rows, processed_sheets, skipped_no_table,
                   skipped_no_value_col, annual>>
    /\ UNCHANGED varsNorm
    /\ UNCHANGED varsJoin

NextBls ==
    \/ OpenWorkbook
    \/ ProcessSheet
    \/ ConsolidateAnnual
    \/ SplitAndSave

SpecBls == InitBls /\ [][NextBls]_vars

----------------------------------------------------------------------------
(* Claims about stage 4 *)

\* the table of a sheet: the position of its header row (0 when there is none)
\* and the position of a column in it
TableStart(raw) ==
    LET hits == {i \in DOMAIN raw : /\ Len(raw[i]) >= 2
                                    /\ strip(astype_str(raw[i][1])) = <<"Y", "e", "a", "r">>
                                    /\ strip(astype_str(raw[i][2])) = <<"P", "e", "r", "i", "o", "d">>}
    IN  IF hits = {} THEN 0 ELSE CHOOSE i \in hits : \A k \in hits : i <= k
ColumnNamed(raw, name) ==
    LET hits == {j \in DOMAIN raw[TableStart(raw)] : raw[TableStart(raw)][j] = S(name)}
    IN  IF hits = {} THEN 0 ELSE CHOOSE j \in hits : \A k \in hits : j <= k

\* a usable county sheet: it has a table with an "Observation Value" column
Usable(raw) == TableStart(raw) > 0 /\ ColumnNamed(raw, <<"O", "b", "s", "e", "r", "v", "a", "t", "i", "o", "n", " ", "V", "a", "l", "u", "e">>) > 0

\* Period, Year and value of the table row at position i of a sheet
PeriodAt(raw, i) == strip(astype_str(raw[i][ColumnNamed(raw, <<"P", "e", "r", "i", "o", "d">>)]))
YearAt(raw, i) == to_numeric_cell(raw[i][ColumnNamed(raw, <<"Y", "e", "a", "r">>)])
ValueAt(raw, i) == to_numeric_cell(raw[i][ColumnNamed(raw, <<"O", "b", "s", "e", "r", "v", "a", "t", "i", "o", "n", " ", "V", "a", "l", "u", "e">>)])
Hundredths(v) == IF v.t = "int" THEN 100 * v.n ELSE v.c

\* the rows of a sheet that contribute to its annual rows
ContributingRows(raw) ==
    {i \in (TableStart(raw) + 1)..Len(raw) :
        /\ \E m \in 1..12 : PeriodAt(raw, i) = <<"M">> \o (IF m < 10 THEN <<"0">> ELSE <<>>) \o IntToStr(m)
        /\ ~isna(YearAt(raw, i))
        /\ ~isna(ValueAt(raw, i))}
RowsOfYear(raw, year) ==
    {i \in ContributingRows(raw) : Hundredths(YearAt(raw, i)) = 100 * year}
RECURSIVE SumValues(_, _)
SumValues(raw, rows) ==
    IF rows = {} THEN 0
    ELSE LET i == CHOOSE x \in rows : TRUE
         IN  Hundredths(ValueAt(raw, i)) + SumValues(raw, rows \ {i})

\* rate = total / n, rate held as the model holds a mean
IsMean(rate, total, n) ==
    IF DOMAIN rate = {"t", "c"} THEN n * rate.c = total
    ELSE rate.num * n = total * rate.den

\* what C19 asks of the annual table of one usable sheet
AnnualExtracted(raw, ann) ==
    /\ {ann[g].Year.n : g \in DOMAIN ann} =
            {Hundredths(YearAt(raw, i)) \div 100 : i \in ContributingRows(raw)}
    /\ \A g, h \in DOMAIN ann : ann[g].Year = ann[h].Year => g = h
    /\ \A g \in DOMAIN ann :
          LET rows == RowsOfYear(raw, ann[g].Year.n)
          IN  /\ IsMean(ann[g].unemployment_rate, SumValues(raw, rows), Cardinality(rows))
              /\ ann[g].month_count.n = Cardinality({PeriodAt(raw, i) : i \in rows})
              /\ ann[g].month_count.n \in 1..12

\* C19: the annual rows of each usable sheet are one per Year of the rows whose
\* Period is one of M01 .. M12 and whose Year and value parse; unemployment_rate
\* is the mean of these rows' values and month_count the number of their
\* distinct periods, between 1 and 12 (an M13 row never counts).
C19_AnnualExtraction ==
    pcB \in {"split", "done"} =>
        LET usable == SelectSeq(xls.sheets, Usable)
        IN  /\ Len(annual_rows) = Len(usable)
            /\ \A k \in DOMAIN annual_rows : AnnualExtracted(usable[k], annual_rows[k])

\* C19 witness: the San Diego sheet gave 2024 with 12 months and the mean 4.5 of
\* its monthly values (its M13 row left out), and 2025 with 3 months
C19_Witness ==
    /\ pcB = "done"
    /\ xls.sheets = <<SheetSanDiego>>
    /\ Len(annual) = 2
    /\ annual[1].Year = I(2024) /\ annual[1].month_count = I(12)
    /\ annual[1].unemployment_rate = F(450)
    /\ annual[2].Year = I(2025) /\ annual[2].month_count = I(3)

\* number of rows of a table that agree with an annual row on every column the
\* row shares with the table
SameAnnualRow(a, r) ==
    /\ a.County = r.County /\ a.Series_ID = r.Series_ID /\ a.Series_Title = r.Series_Title
    /\ a.Year = r.Year /\ a.unemployment_rate = r.unemployment_rate
CountIn(table, r) == Cardinality({i \in DOMAIN table : SameAnnualRow(table[i], r)})

\* C20: every annual row is in exactly one of the two written sets: a row of 12
\* months in the complete-year set, a row of fewer months in the partial set,
\* flagged; no row is in both, none is lost, none is added.
C20_CompletePartialPartition ==
    pcB = "done" =>
        /\ annual_full.written /\ annual_ytd.written
        /\ Len(annual_full.rows) + Len(annual_ytd.rows) = Len(annual)
        /\ \A i \in DOMAIN annual_ytd.rows :
              annual_ytd.rows[i].is_partial_year /\ annual_ytd.rows[i].month_count.n < 12
        /\ \A i \in DOMAIN annual :
              /\ annual[i].month_count.n = 12 \/ annual[i].month_count.n < 12
              /\ CountIn(annual_full.rows, annual[i]) =
                    Cardinality({k \in DOMAIN annual : /\ SameAnnualRow(annual[k], annual[i])
                                                       /\ annual[k].month_count.n = 12})
              /\ CountIn(annual_ytd.rows, annual[i]) =
                    Cardinality({k \in DOMAIN annual : /\ SameAnnualRow(annual[k], annual[i])
                                                       /\ annual[k].month_count.n < 12})

\* C20 witness: a workbook gave complete and partial years, written apart
C20_Witness ==
    /\ pcB = "done"
    /\ Len(annual_full.rows) = 2
    /\ Len(annual_ytd.rows) = 2

----------------------------------------------------------------------------
(* Claims about the sheets of stage 4, the keys of the joins and the chain *)

\* the sheets the loop of stage 4 has gone through so far
SheetsSeen == SubSeq(xls.sheets, 1, Min(sheet_idx - 1, Len(xls.sheets)))

\* C21: a sheet without a ("Year", "Period") row, or whose table has no
\* "Observation Value" column, is counted as skipped, adds no annual table and
\* does not end the run; the run aborts exactly when no sheet of the workbook
\* is usable.
C21_SheetLevelSkip ==
    /\ skipped_no_table = Cardinality({k \in DOMAIN SheetsSeen : TableStart(SheetsSeen[k]) = 0})
    /\ skipped_no_value_col =
            Cardinality({k \in DOMAIN SheetsSeen : /\ TableStart(SheetsSeen[k]) > 0
                                                   /\ ~Usable(SheetsSeen[k])})
    /\ Len(annual_rows) = Cardinality({k \in DOMAIN SheetsSeen : Usable(SheetsSeen[k])})
    /\ processed_sheets = Len(annual_rows)
    /\ pcB = "aborted" => \A k \in DOMAIN xls.sheets : ~Usable(xls.sheets[k])
    /\ pcB \in {"split", "done"} => \E k \in DOMAIN xls.sheets : Usable(xls.sheets[k])

----------------------------------------------------------------------------
(* Stage 5 alone: BLS_PATH and XW_PATH hold files of every shape *)

\* bounds of the stage-5 inputs
MaxCountyRows == 2      \* rows of a BLS file
MaxXwRows == 3          \* rows of a crosswalk file

Alameda == S(<<"A", "l", "a", "m", "e", "d", "a", " ", "C", "o", "u", "n", "t", "y">>)
SanDiego == S(<<"S", "a", "n", " ", "D", "i", "e", "g", "o", " ", "C", "o", "u", "n", "t", "y">>)

\* values of the column Series_ID: the documented layout (line 100), two series
\* of San Diego County, shorter texts, an empty cell and a number
SeriesIds ==
    <<S(<<"L", "A", "U", "C", "N", "0", "6", "0", "0", "1", "0", "0", "0", "0", "0", "0", "0", "0", "0", "3">>), S(<<"L", "A", "U", "C", "N", "0", "6">>), S(<<"L", "A", "U", "C", "N", "0", "6", "0", "7", "3", "0", "0", "0", "0", "0", "0", "0", "0", "0", "3">>),
      S(<<"L", "A", "U", "C", "N", "0", "6", "0", "7">>), S(<<"L", "A", "U">>), NaN, I(1234567890)>>

\* one BLS row per Series_ID value, in the columns stage 4 writes
SeriesRows ==
    [k \in DOMAIN SeriesIds |->
        [Year |-> I(2023 + (k % 2)), unemployment_rate |-> F(400 + 10 * k),
         County |-> IF k = 1 THEN Alameda ELSE SanDiego, Series_ID |-> SeriesIds[k]]]

\* BLS rows of a file that has the column County_FIPS (text cells) next to Series_ID
FipsRows ==
    <<[Year |-> I(2024), unemployment_rate |-> F(440), County |-> SanDiego,
       Series_ID |-> S(<<"L", "A", "U", "C", "N", "0", "6", "0", "0", "1", "0", "0", "0", "0", "0", "0", "0", "0", "0", "3">>), County_FIPS |-> S(<<"0", "6", "0", "7", "3">>)],
      [Year |-> I(2024), unemployment_rate |-> F(1690), County |-> S(<<"I", "m", "p", "e", "r", "i", "a", "l", " ", "C", "o", "u", "n", "t", "y">>),
       Series_ID |-> NaN, County_FIPS |-> S(<<"0", "6", "0", "2", "5">>)]>>

\* a row without one of the named columns
without(r, name) == [c \in DOMAIN r \ {name} |-> r[c]]

\* the files BLS_PATH can hold
BlsFiles ==
    LET with_series == SubTables(SeriesRows, MaxCountyRows)
        with_fips == SubTables(FipsRows, MaxCountyRows) \ {<<>>}
        fips_only == {[i \in DOMAIN t |-> without(t[i], "Series_ID")] : t \in with_fips}
        neither == {<<without(SeriesRows[1], "Series_ID")>>,
                    <<without(SeriesRows[1], "Series_ID"), without(SeriesRows[2], "Series_ID")>>}
        no_county == {<<without(SeriesRows[2], "County")>>}
    IN  with_series \cup with_fips \cup fips_only \cup neither \cup no_county

\* HUD crosswalk rows: a ZIP whose leading zero the number lost, rows tied at the
\* largest ratio, a row without ratio
XwLowZip == [ZIP |-> I(1234), COUNTY |-> I(6073), USPS_ZIP_PREF_STATE |-> S(<<"C", "A">>), TOT_RATIO |-> F(30)]
XwVistaTie == [ZIP |-> I(92084), COUNTY |-> I(6025), USPS_ZIP_PREF_STATE |-> S(<<"C", "A">>), TOT_RATIO |-> F(100)]
XwVistaNoRatio == [ZIP |-> I(92084), COUNTY |-> I(6037), USPS_ZIP_PREF_STATE |-> S(<<"C", "A">>), TOT_RATIO |-> NaN]
XwVistaNevada == [ZIP |-> I(92084), COUNTY |-> I(32003), USPS_ZIP_PREF_STATE |-> S(<<"N", "V">>), TOT_RATIO |-> F(100)]
XwRowsA == <<XwVistaNevada, XwVistaNoRatio, XwVista, XwVistaTie, XwBonitaLA, XwBonitaSD, XwLowZip, XwNevada>>
XwRowsB == <<XwVistaTie, XwVista, XwVistaNoRatio, XwBonitaSD, XwBonitaImp, XwBonitaLA, XwLowZip>>

\* the files XW_PATH can hold
CrosswalkFiles == SubTables(XwRowsA, MaxXwRows) \cup SubTables(XwRowsB, MaxXwRows)

\* stage-3 outputs stage 6 can find
AcsTables ==
    {join_liheap_acs(aggregate_liheap_by_zip(run_pipeline(<<SourceFile(1, <<>>, HeaderFull, rows)>>, TRUE)),
                     SubSeq(IncomeRows, 1, 1), SubSeq(PopulationRows, 1, 1)) :
        rows \in {<<RowVista>>, <<RowVista, RowBlankCity>>}}

InitCounty ==
    /\ InitNorm({<<>>})
    /\ BlsOff
    /\ pcJ = "s5"
    /\ liheap_clean = <<>>
    /\ liheap_zip_year = <<>>
    /\ df_income = <<>>
    /\ df_population = <<>>
    /\ liheap_acs \in AcsTables
    /\ df_bls = <<>>
    /\ df_bls_clean = <<>>
    /\ df_xw = <<>>
    /\ df_zip_primary = <<>>
    /\ df_zip_unemp = <<>>
    /\ df_final = <<>>

BuildZipUnemploymentOfFiles ==
    BuildZipUnemploymentFrom({NotWritten} \cup {Written(bls) : bls \in BlsFiles}, CrosswalkFiles)

NextCounty ==
    \/ BuildZipUnemploymentOfFiles
    \/ JoinLiheapAcsUnemployment

SpecCounty == InitCounty /\ [][NextCounty]_vars

----------------------------------------------------------------------------
(* Claims about stage 5 *)

\* the characters of a text at the 0-based offsets 5 .. 9, as far as they exist
CharsFiveToTen(s) == [k \in 1..(IF Len(s) > 5 THEN (IF Len(s) < 10 THEN Len(s) ELSE 10) - 5 ELSE 0) |-> s[5 + k]]

\* f is the text t with zeros put in front up to 5 characters
ZeroPaddedToFive(f, t) ==
    /\ Len(f) = 5
    /\ \A k \in 1..5 : f[k] = IF k <= 5 - Len(t) THEN "0" ELSE t[k - (5 - Len(t))]

\* C22: without a County_FIPS column, the County_FIPS of every row is a text of
\* exactly 5 characters, for a Series_ID text the characters [5:10] of it with
\* zeros in front; without County_FIPS and Series_ID the run aborts.
C22_CountyFipsDerivation ==
    /\ (pcJ \in {"s6", "done"} /\ df_bls # <<>> /\ "County_FIPS" \notin DOMAIN df_bls[1]) =>
            /\ Len(df_bls_clean) = Len(df_bls)
            /\ \A i \in DOMAIN df_bls :
                    /\ df_bls_clean[i].County_FIPS.t = "str"
                    /\ Len(df_bls_clean[i].County_FIPS.s) = 5
                    /\ df_bls[i].Series_ID.t = "str" =>
                            ZeroPaddedToFive(df_bls_clean[i].County_FIPS.s,
                                             CharsFiveToTen(df_bls[i].Series_ID.s))
                    /\ df_bls[i].Series_ID = S(<<"L", "A", "U", "C", "N", "0", "6", "0", "0", "1", "0", "0", "0", "0", "0", "0", "0", "0", "0", "3">>) =>
                            df_bls_clean[i].County_FIPS = S(<<"0", "6", "0", "0", "1">>)
    /\ (df_bls # <<>> /\ {"County_FIPS", "Series_ID"} \cap DOMAIN df_bls[1] = {}) => pcJ = "aborted"

\* reached: a file with the documented Series_ID and a short one went through
\* STEP 2, and a file with neither column ended the run
C22_Witness ==
    /\ pcJ = "s6"
    /\ Len(df_bls) = 2
    /\ "County_FIPS" \notin DOMAIN df_bls[1]
    /\ df_bls[1].Series_ID = S(<<"L", "A", "U", "C", "N", "0", "6", "0", "0", "1", "0", "0", "0", "0", "0", "0", "0", "0", "0", "3">>)
    /\ df_bls[2].Series_ID = S(<<"L", "A", "U", "C", "N", "0", "6">>)
    /\ df_bls_clean[2].County_FIPS = S(<<"0", "0", "0", "0", "6">>)

\* the decimal digits of a number below 100000, five of them
DigitChar(d) == <<"0", "1", "2", "3", "4", "5", "6", "7", "8", "9">>[d + 1]
FiveDigits(n) ==
    <<DigitChar((n \div 10000) % 10), DigitChar((n \div 1000) % 10), DigitChar((n \div 100) % 10),
      DigitChar((n \div 10) % 10), DigitChar(n % 10)>>

\* the crosswalk rows of state CA (in either letter case)
RowsOfCA == {i \in DOMAIN df_xw : df_xw[i].USPS_ZIP_PREF_STATE \in {S(<<"C", "A">>), S(<<"c", "a">>)}}

\* the crosswalk rows of CA with the ZIP of row j of the assignment table
CandidatesOf(j) == {i \in RowsOfCA : S(FiveDigits(df_xw[i].ZIP.n)) = df_zip_primary[j].Zip_Code}

\* C23: the assignment table has exactly one row per ZIP with a CA row and none
\* for other ZIPs; its row is a CA row of that ZIP whose TOT_RATIO no other
\* CA row of the ZIP exceeds, the earliest such row of the crosswalk.
C23_DominantCounty ==
    pcJ \in {"s6", "done"} =>
        /\ \A i \in RowsOfCA :
                Cardinality({j \in DOMAIN df_zip_primary : i \in CandidatesOf(j)}) = 1
        /\ \A j \in DOMAIN df_zip_primary :
                \E i \in CandidatesOf(j) :
                    /\ df_zip_primary[j].County_FIPS = S(FiveDigits(df_xw[i].COUNTY.n))
                    /\ df_zip_primary[j].zip_to_county_weight = df_xw[i].TOT_RATIO
                    /\ \A o \in CandidatesOf(j) :
                            df_xw[o].TOT_RATIO # NaN =>
                                /\ df_xw[i].TOT_RATIO # NaN
                                /\ df_xw[o].TOT_RATIO.c <= df_xw[i].TOT_RATIO.c
                                /\ df_xw[o].TOT_RATIO.c = df_xw[i].TOT_RATIO.c => i <= o

\* reached: two CA rows of ZIP 92084 tie at the largest ratio behind a row
\* without ratio, and the first of the two is the row chosen
C23_Witness ==
    /\ pcJ = "s6"
    /\ df_xw = <<XwVistaNoRatio, XwVista, XwVistaTie>>
    /\ Len(df_zip_primary) = 1
    /\ df_zip_primary[1].County_FIPS = S(<<"0", "6", "0", "7", "3">>)

----------------------------------------------------------------------------
(* The Normalizer on two files, one of them without Pledge_Amount *)

\* a row without ZIP whose date is a text
RowNoZipTextDate == <<NaN, S(<<"2", "0", "2", "4", "-", "0", "5", "-", "1", "4">>), I(100), S(<<"V", "i", "s", "t", "a">>)>>

\* data rows of the valid file of the scenario: a record and its duplicate, a
\* record without amount and its duplicate, a record after the end of the
\* range, records without ZIP, a record without date
ScenarioRows == <<RowVista, RowVista, RowNoAmount, RowNoAmount, RowLate, RowNoZip, RowNoZipTextDate, RowBadFields>>

\* Inputs of SpecScenario: the rejected file and a valid file, in either order
\* of their names (and the rejected file alone)
ScenarioFileLists ==
    {<<BadFile(1)>>}
    \cup {<<BadFile(1), SourceFile(2, <<>>, HeaderFull, rows)>> : rows \in SubTables(ScenarioRows, MaxRows)}
    \cup {<<SourceFile(1, <<>>, HeaderFull, rows), BadFile(2)>> : rows \in SubTables(ScenarioRows, MaxRows)}

InitScenario == InitNorm(ScenarioFileLists) /\ JoinOff
SpecScenario == InitScenario /\ [][Next]_vars

\* file b of the run lacks the Pledge_Amount column and file v has all columns
IsScenario(b, v) ==
    /\ Len(excel_files) = 2
    /\ b # v
    /\ excel_files[b].grid[1] = HeaderNoAmount
    /\ excel_files[v].grid[1] = HeaderFull

\* what the valid file alone has after cleaning, deduplication and date filter
RowsOfValidFile(v) ==
    filter_by_date_range(deduplicate(clean_core_columns(normalized_rows(excel_files[v]))),
                         start_year_month, end_year_month)

\* C24: with one file lacking Pledge_Amount and one valid file the run
\* completes; the rejected file hands over no row and is recorded as skipped
\* for Pledge_Amount; the saved table has as many rows as the valid file has
\* after deduplication and date filtering.
C24_EndToEndScenario ==
    \A b, v \in {1, 2} :
        IsScenario(b, v) =>
            /\ pc \notin {"aborted", "raised"}
            /\ (pc \notin {"idle", "load"} \/ file_idx > 2) =>
                    /\ skipped_files = <<<<excel_files[b].name, <<ColPledge_Amount>>>>>>
                    /\ Contributing \subseteq {excel_files[v].name}
                    /\ \A r \in DOMAIN df_all : df_all[r].SourceFile = excel_files[v].name
            /\ pc = "done" =>
                    /\ final_output.written
                    /\ Len(final_output.rows) = Len(RowsOfValidFile(v))

----------------------------------------------------------------------------
(* Claims about the keys of the joins and the chain of stages *)

\* two ZIP cells of any representation name the same ZIP
SameZip(a, b) == IsIntegral(a) /\ IsIntegral(b) /\ IntegralValue(a) = IntegralValue(b)

\* C25: the stages turn every representation of a ZIP into the same key, so a
\* LIHEAP row of stage 3 whose ZIP has a row in the income table, whatever the
\* representation of the ZIP there, gets its Median_Income from such a row.
C25_KeyNormalizationConsistency ==
    pcJ \in {"s5", "s6", "done"} =>
        \A i \in DOMAIN liheap_acs :
            (\E k \in DOMAIN df_income : SameZip(liheap_acs[i].Zip_Code, df_income[k].ZIPCODE)) =>
                \E k \in DOMAIN df_income :
                    /\ SameZip(liheap_acs[i].Zip_Code, df_income[k].ZIPCODE)
                    /\ liheap_acs[i].Median_Income = df_income[k].Median_Income

----------------------------------------------------------------------------
(* Claims about the steps of the Normalizer *)

\* the order of the steps of run(), and the ways a run ends before its last step
StepOrder ==
    {<<"idle", "load">>, <<"load", "clean">>, <<"clean", "dedup">>, <<"dedup", "fill">>,
     <<"fill", "filter">>, <<"filter", "save">>, <<"save", "done">>, <<"done", "idle">>}
EarlyEnds == {<<"idle", "aborted">>, <<"load", "aborted">>, <<"clean", "raised">>}

\* C27: a run goes through load, clean, deduplicate, backfill, filter, save in
\* this order, each once (the loading step once per file); deduplication and
\* the internal mapping get the records of all dates, and the saved table is
\* the output of the filter.
C27_StepOrder ==
    [][/\ pc' # pc => <<pc, pc'>> \in StepOrder \cup EarlyEnds
       /\ pc' = pc => (pc = "load" /\ file_idx' = file_idx + 1)
       /\ (pc = "dedup" /\ pc' = "fill") => (df_all = cleaned_rows /\ df_all' = deduped_rows)
       /\ (pc = "fill" /\ pc' = "filter") =>
                /\ df_all = deduped_rows
                /\ internal_zip_city' = build_zip_city_from_internal(deduped_rows)
       /\ (pc = "filter" /\ pc' = "save") =>
                /\ Len(df_all) = Len(deduped_rows)
                /\ DateFiltered(df_all, df_all', start_year_month, end_year_month)
       /\ (pc = "save" /\ pc' = "done") =>
                /\ final_output'.written
                /\ Len(final_output'.rows) = Len(df_all)
                /\ \A i \in DOMAIN df_all :
                        /\ final_output'.rows[i].YearMo = df_all[i].YearMo
                        /\ final_output'.rows[i].City = df_all[i].City
                        /\ final_output'.rows[i].Pledge_Amount = df_all[i].Pledge_Amount]_vars

\* reached: the record of 2022-12 gave the internal mapping its entry, the
\* record of 2025-07 got its City from it, and the filter then removed the
\* record of 2022-12 from the saved table
C27_Witness ==
    /\ pc = "done"
    /\ Len(deduped_rows) = 2
    /\ internal_zip_city = build_zip_city_from_internal(deduped_rows)
    /\ internal_zip_city # {}
    /\ Len(final_output.rows) = 1
    /\ final_output.rows[1].YearMo = S(<<"2", "0", "2", "5", "-", "0", "7">>)
    /\ final_output.rows[1].City = S(<<"V", "I", "S", "T", "A">>)

\* two cells hold the same value, two missing cells counting as the same
SameCell(a, b) ==
    IF isna(a) \/ isna(b) THEN isna(a) /\ isna(b)
    ELSE IF a.t = "str" \/ b.t = "str" THEN a = b
    ELSE Hundredths(a) = Hundredths(b)
SameTriple(r, s) ==
    /\ SameCell(r.Zip_Code, s.Zip_Code)
    /\ SameCell(r.YearMo, s.YearMo)
    /\ SameCell(r.Pledge_Amount, s.Pledge_Amount)
UniqueTriples(df) == \A i, j \in DOMAIN df : i < j => ~SameTriple(df[i], df[j])

\* C28: no two records of the emitted table agree on (Zip_Code, YearMo,
\* Pledge_Amount), missing values counting as equal; the table is unique on the
\* triple from deduplication on, since the City backfill keeps the rows and
\* their three fields and the date filter only removes rows.
C28_KeyUniqueness ==
    /\ [](/\ final_output.written => UniqueTriples(final_output.rows)
          /\ pc \in {"fill", "filter", "save", "done"} => UniqueTriples(df_all))
    /\ [][/\ (pc = "fill" /\ pc' = "filter") =>
                /\ Len(df_all') = Len(df_all)
                /\ \A i \in DOMAIN df_all : SameTriple(df_all'[i], df_all[i])
          /\ (pc = "filter" /\ pc' = "save") =>
                \E keep \in SUBSET DOMAIN df_all :
                    df_all' = SelectSeq(df_all, LAMBDA r : \E i \in keep : df_all[i] = r)
          /\ (pc = "save" /\ pc' = "done") =>
                /\ Len(final_output'.rows) = Len(df_all)
                /\ \A i \in DOMAIN df_all :
                        /\ SameCell(final_output'.rows[i].YearMo, df_all[i].YearMo)
                        /\ SameCell(final_output'.rows[i].Pledge_Amount, df_all[i].Pledge_Amount)
                        /\ final_output'.rows[i].Zip_Code.s = astype_str(df_all[i].Zip_Code)]_vars

\* reached: deduplication removed a record whose amount is missing, as a
\* duplicate of another one without amount, next to a duplicate with amount,
\* and the run saved the two records left
C28_Witness ==
    /\ pc = "done"
    /\ removed = 2
    /\ Len(cleaned_rows) = 4
    /\ \E i, j \in DOMAIN cleaned_rows :
            i < j /\ isna(cleaned_rows[i].Pledge_Amount) /\ SameTriple(cleaned_rows[i], cleaned_rows[j])
    /\ Len(final_output.rows) = 2

\* C29: with a start or an end bound set, no record whose Created_On is missing
\* (its YearMo is not a YYYY-MM text) is left by the date filter.
C29_MissingDatesFiltered ==
    (pc \in {"save", "done"} /\ (start_year_month # None \/ end_year_month # None)) =>
        \A i \in DOMAIN df_all : IsYearMo(df_all[i].YearMo.s)

----------------------------------------------------------------------------
(* The six scripts run one after the other on one disk *)

\* pathlib: a path is the sequence of its parts below the root of the
\* repository; Path.parent, Path.parents[n], the operator /
parent(path) == SubSeq(path, 1, Len(path) - 1)
parents(path, n) == SubSeq(path, 1, Len(path) - n - 1)
ScriptPath(script) == <<"notebooks", "pipeline", script>>    \* Path(__file__).resolve()

\* 01 lines 22, 29
SCRIPT_DIR == parent(parent(ScriptPath("01_combine_liheap_data.py")))
FINAL_OUTPUT == SCRIPT_DIR \o <<"data_clean", "liheap_clean_2023_2025.xlsx">>
\* 02 lines 34, 37, 40 (PROJECT_ROOT is the same in 02 .. 06)
PROJECT_ROOT == parents(ScriptPath("02_aggregate_liheap_by_zip.py"), 2)
INPUT_FILE == PROJECT_ROOT \o <<"data", "clean", "liheap_clean_2023_2025.xlsx">>
OUTPUT_FILE_02 == PROJECT_ROOT \o <<"data", "clean", "dataliheap_zip_year_sanity_check.xlsx">>
\* 03 lines 44, 49
LIHEAP_FILE == PROJECT_ROOT \o <<"data", "clean", "dataliheap_zip_year_sanity_check.xlsx">>
OUTPUT_FILE_03 == PROJECT_ROOT \o <<"data", "raw", "Acs_ca_zcta", "liheap_acs_combined.xlsx">>
\* 04 lines 49, 52
OUT_ANNUAL_COMBINED ==
    PROJECT_ROOT \o <<"data", "clean", "bls_laus">> \o <<"bls_laus_unemp_rate_ca_county_annual.xlsx">>
\* 05 lines 43-47, 55, 58
BLS_PATH ==
    PROJECT_ROOT \o <<"data", "clean", "bls_laus", "bls_laus_unemp_rate_ca_county_annual.xlsx">>
OUT_XLSX ==
    PROJECT_ROOT \o <<"data", "clean", "bls_laus">> \o <<"ca_zip_unemployment_annual_option1.xlsx">>
\* 06 lines 37-43
LIHEAP_ACS_FILE == PROJECT_ROOT \o <<"data", "raw", "Acs_ca_zcta", "liheap_acs_combined.xlsx">>
UNEMP_FILE ==
    PROJECT_ROOT \o <<"data", "clean", "bls_laus", "ca_zip_unemployment_annual_option1.xlsx">>

\* the files the run has written so far: path and table (of a workbook of
\* several sheets, the first sheet, which pd.read_excel reads by default)
disk ==
    (IF final_output.written THEN {<<FINAL_OUTPUT, final_output.rows>>} ELSE {})
    \cup (IF pcJ \in {"s3", "s5", "s6", "done"} THEN {<<OUTPUT_FILE_02, liheap_zip_year>>} ELSE {})
    \cup (IF pcJ \in {"s5", "s6", "done"} THEN {<<OUTPUT_FILE_03, liheap_acs>>} ELSE {})
    \cup (IF annual_full.written THEN {<<OUT_ANNUAL_COMBINED, annual_full.rows>>} ELSE {})
    \cup (IF pcJ \in {"s6", "done"} THEN {<<OUT_XLSX, df_zip_unemp>>} ELSE {})

\* what a script finds at a path: the file the run wrote there; where the run
\* wrote none, no file or a file that was there before the run
FoundAt(path, earlier) ==
    IF \E f \in disk : f[1] = path
    THEN {Written(f[2]) : f \in {g \in disk : g[1] = path}}
    ELSE {NotWritten} \cup {Written(t) : t \in earlier}

\* pd.read_excel of the first sheet of OUT_ANNUAL_COMBINED: a text cell that
\* was written empty is read as missing
read_excel_text(v) == IF v = S(<<>>) THEN NaN ELSE v
read_excel_annual(rows) ==
    [i \in DOMAIN rows |->
        [rows[i] EXCEPT !.County = read_excel_text(@),
                        !.Series_ID = read_excel_text(@),
                        !.Series_Title = read_excel_text(@)]]

\* the inputs of the run: the LIHEAP files, a clean table left at INPUT_FILE by
\* an earlier run, the ACS sheets, the BLS workbook and the crosswalk
ChainFileLists ==
    {<<BadFile(1)>>,
     <<SourceFile(1, <<>>, HeaderFull, <<RowVista, RowBlankCity>>)>>,
     <<SourceFile(1, <<>>, HeaderFull, <<RowVista, RowLate>>)>>}
EarlierCleanTables ==
    {run_pipeline(<<SourceFile(1, <<>>, HeaderFull, rows)>>, TRUE) :
        rows \in {<<RowVista, RowBlankCity>>, <<RowVista>>}}
\* stage 4 before its last step (STEP 4-5), as SpecBls reaches it for a
\* workbook of one sheet: the annual rows of San Diego County (2024 complete,
\* 2025 of 3 months) or of Imperial County (2023 of 12 periods, 2024 of 1 month);
\* or stage 4 ended at STEP 1, its workbook absent
AnnualRowOf(year, rate, months, county, series_id, series_title) ==
    [Year |-> I(year), unemployment_rate |-> rate, month_count |-> I(months),
     County |-> S(county), Series_ID |-> S(series_id), Series_Title |-> S(series_title)]
AnnualSanDiego ==
    <<AnnualRowOf(2024, F(450), 12, <<"S", "a", "n", " ", "D", "i", "e", "g", "o", " ", "C", "o", "u", "n", "t", "y">>, <<"L", "A", "U", "C", "N", "0", "6", "0", "7", "3", "0", "0", "0", "0", "0", "0", "0", "0", "0", "3">>, <<"U", "n", "e", "m", "p", "l", "o", "y", "m", "e", "n", "t", " ", "R", "a", "t", "e", ":", " ", "S", "a", "n", " ", "D", "i", "e", "g", "o", " ", "C", "o", "u", "n", "t", "y", ",", " ", "C", "A", " ", "(", "U", ")">>),
      AnnualRowOf(2025, [t |-> "float", c |-> 511, num |-> 1535, den |-> 3], 3, <<"S", "a", "n", " ", "D", "i", "e", "g", "o", " ", "C", "o", "u", "n", "t", "y">>, <<"L", "A", "U", "C", "N", "0", "6", "0", "7", "3", "0", "0", "0", "0", "0", "0", "0", "0", "0", "3">>, <<"U", "n", "e", "m", "p", "l", "o", "y", "m", "e", "n", "t", " ", "R", "a", "t", "e", ":", " ", "S", "a", "n", " ", "D", "i", "e", "g", "o", " ", "C", "o", "u", "n", "t", "y", ",", " ", "C", "A", " ", "(", "U", ")">>)>>
AnnualImperial ==
    <<AnnualRowOf(2023, F(1710), 12, <<"I", "m", "p", "e", "r", "i", "a", "l", " ", "C", "o", "u", "n", "t", "y">>, <<"L", "A", "U", "C", "N", "0", "6", "0", "2", "5", "0", "0", "0", "0", "0", "0", "0", "0", "0", "3">>, <<"U", "n", "e", "m", "p", "l", "o", "y", "m", "e", "n", "t", " ", "R", "a", "t", "e", ":", " ", "I", "m", "p", "e", "r", "i", "a", "l", " ", "C", "o", "u", "n", "t", "y", ",", " ", "C", "A", " ", "(", "U", ")">>),
      AnnualRowOf(2024, F(1600), 1, <<"I", "m", "p", "e", "r", "i", "a", "l", " ", "C", "o", "u", "n", "t", "y">>, <<"L", "A", "U", "C", "N", "0", "6", "0", "2", "5", "0", "0", "0", "0", "0", "0", "0", "0", "0", "3">>, <<"U", "n", "e", "m", "p", "l", "o", "y", "m", "e", "n", "t", " ", "R", "a", "t", "e", ":", " ", "I", "m", "p", "e", "r", "i", "a", "l", " ", "C", "o", "u", "n", "t", "y", ",", " ", "C", "A", " ", "(", "U", ")">>)>>
BeforeSplit(sheet, ann) ==
    [pcB |-> "split", xls |-> [exists |-> TRUE, sheets |-> <<sheet>>], sheet_idx |-> 2,
     annual_rows |-> <<ann>>, processed_sheets |-> 1, annual |-> ann]
ChainBlsStates ==
    {BeforeSplit(SheetSanDiego, AnnualSanDiego), BeforeSplit(SheetImperial, AnnualImperial),
     [pcB |-> "aborted", xls |-> [exists |-> FALSE, sheets |-> <<>>], sheet_idx |-> 1,
      annual_rows |-> <<>>, processed_sheets |-> 0, annual |-> <<>>]}
ChainCrosswalks == {<<XwVista, XwBonitaImp>>, <<XwBonitaSD, XwBonitaImp, XwVista>>}

InitChain ==
    /\ InitNorm(ChainFileLists)
    /\ pcJ = "s2"
    /\ liheap_clean = <<>>
    /\ liheap_zip_year = <<>>
    /\ df_income = <<>>
    /\ df_population = <<>>
    /\ liheap_acs = <<>>
    /\ df_bls = <<>>
    /\ df_bls_clean = <<>>
    /\ df_xw = <<>>
    /\ df_zip_primary = <<>>
    /\ df_zip_unemp = <<>>
    /\ df_final = <<>>
    /\ \E st \in ChainBlsStates :
          /\ pcB = st.pcB
          /\ xls = st.xls
          /\ sheet_idx = st.sheet_idx
          /\ annual_rows = st.annual_rows
          /\ processed_sheets = st.processed_sheets
          /\ annual = st.annual
    /\ skipped_no_table = 0
    /\ skipped_no_value_col = 0
    /\ annual_full = NotWritten
    /\ annual_ytd = NotWritten

\* stage 2 once stage 1 has saved its table, stage 3 after it
AggregateAfterNormalizer ==
    /\ pc = "done"
    /\ AggregateLiheapByZipFrom(FoundAt(INPUT_FILE, EarlierCleanTables))
JoinAcsAfterAggregate ==
    JoinLiheapAcsWith({SubSeq(IncomeRows, 1, 1) \o SubSeq(IncomeRows, 3, 3)},
                      {SubSeq(PopulationRows, 2, 3)})
\* the last step of stage 4 after stage 3, stage 5 once stage 4 has ended
SplitAndSaveAfterJoin ==
    /\ pcJ = "s5"
    /\ SplitAndSave
BuildZipUnemploymentAfterBls ==
    /\ pcB \in {"done", "aborted"}
    /\ BuildZipUnemploymentFrom(
            {IF f.written THEN Written(read_excel_annual(f.rows)) ELSE f :
                f \in FoundAt(BLS_PATH, {})},
            ChainCrosswalks)

NextChain ==
    \/ StartRun
    \/ NormalizeSingleFile
    \/ AbortNoValidFiles
    \/ ConcatAndSaveCombined
    \/ CleanCoreColumns
    \/ Deduplicate
    \/ FillMissingCities
    \/ FilterByDateRange
    \/ SaveFinalDataset
    \/ AggregateAfterNormalizer
    \/ JoinAcsAfterAggregate
    \/ SplitAndSaveAfterJoin
    \/ BuildZipUnemploymentAfterBls
    \/ JoinLiheapAcsUnemployment

SpecChain == InitChain /\ [][NextChain]_vars

----------------------------------------------------------------------------
(* Stages 4, 5 and 6 run one after the other: from the BLS workbook to the
   final table *)

RatesWorkbooks ==
    {[exists |-> FALSE, sheets |-> <<>>]}
    \cup {[exists |-> TRUE, sheets |-> sh] :
            sh \in {<<SheetSanDiego>>, <<SheetImperial>>, <<SheetSanDiego, SheetImperial>>,
                    <<SheetImperial, SheetSanDiego>>, <<SheetNoTable>>, <<SheetOnlyAnnual>>,
                    <<SheetAreaOnly, SheetSanDiego>>}}

InitRates ==
    /\ InitNorm({<<>>})
    /\ pcJ = "s5"
    /\ liheap_clean = <<>>
    /\ liheap_zip_year = <<>>
    /\ df_income = <<>>
    /\ df_population = <<>>
    /\ liheap_acs \in AcsTables
    /\ df_bls = <<>>
    /\ df_bls_clean = <<>>
    /\ df_xw = <<>>
    /\ df_zip_primary = <<>>
    /\ df_zip_unemp = <<>>
    /\ df_final = <<>>
    /\ pcB = "start"
    /\ xls \in RatesWorkbooks
    /\ sheet_idx = 1
    /\ annual_rows = <<>>
    /\ processed_sheets = 0
    /\ skipped_no_table = 0
    /\ skipped_no_value_col = 0
    /\ annual = <<>>
    /\ annual_full = NotWritten
    /\ annual_ytd = NotWritten

NextRates ==
    \/ OpenWorkbook
    \/ ProcessSheet
    \/ ConsolidateAnnual
    \/ SplitAndSave
    \/ BuildZipUnemploymentAfterBls
    \/ JoinLiheapAcsUnemployment

SpecRates == InitRates /\ [][NextRates]_vars

----------------------------------------------------------------------------
(* Claims about the chain of stages *)

\* C26: every stage reads the file the stage before it wrote: the paths are the
\* same on each of the edges 1-2, 2-3, 3-6, 4-5 and 5-6, and the table stage 2
\* (stage 5) works on is the table stage 1 (stage 4) saved.
C26_StageChaining ==
    /\ pcJ \in {"s3", "s5", "s6", "done"} =>
            /\ INPUT_FILE = FINAL_OUTPUT
            /\ liheap_clean = final_output.rows
    /\ pcJ \in {"s5", "s6", "done"} => LIHEAP_FILE = OUTPUT_FILE_02
    /\ pcJ \in {"s6", "done"} =>
            /\ BLS_PATH = OUT_ANNUAL_COMBINED
            /\ df_bls = read_excel_annual(annual_full.rows)
    /\ pcJ = "done" =>
            /\ LIHEAP_ACS_FILE = OUTPUT_FILE_03
            /\ UNEMP_FILE = OUT_XLSX

\* the usable sheets of the workbook whose Series ID gives a county code
SheetsOfCounty(fips) ==
    {k \in DOMAIN xls.sheets :
        /\ Usable(xls.sheets[k])
        /\ S(county_fips_of(S(meta_get(xls.sheets[k], <<"S", "e", "r", "i", "e", "s", " ", "I", "D">>)))) = fips}

\* a rate of a county and year is the mean of exactly 12 monthly rows of a sheet
MeanOfTwelve(fips, year, rate) ==
    \E k \in SheetsOfCounty(fips) :
        LET rows == RowsOfYear(xls.sheets[k], year)
        IN  /\ Cardinality(rows) = 12
            /\ IsMean(rate, SumValues(xls.sheets[k], rows), 12)

\* a county and year have a row in the partial set
InPartialSet(fips, year) ==
    \E j \in DOMAIN annual_ytd.rows :
        /\ S(county_fips_of(annual_ytd.rows[j].Series_ID)) = fips
        /\ annual_ytd.rows[j].Year.n = year

\* row i of the stage-5 table has a rate of a complete year only
FromCompleteYear(i) ==
    LET r == df_zip_unemp[i]
    IN  /\ MeanOfTwelve(r.County_FIPS, Hundredths(r.Year) \div 100, r.unemployment_rate)
        /\ ~InPartialSet(r.County_FIPS, Hundredths(r.Year) \div 100)

\* C30: stage 5 reads the complete-year set stage 4 wrote and nothing else;
\* every rate of its output and of the final table is the mean of exactly 12
\* monthly observations of the county's sheet, and no county and year of the
\* partial set gives a rate to a ZIP-Year row.
C30_OnlyCompleteYears ==
    /\ pcJ \in {"s6", "done"} =>
            /\ df_bls = read_excel_annual(annual_full.rows)
            /\ \A i \in DOMAIN df_zip_unemp :
                    ~isna(df_zip_unemp[i].unemployment_rate) => FromCompleteYear(i)
    /\ pcJ = "done" =>
            \A f \in DOMAIN df_final :
                ~isna(df_final[f].unemployment_rate) =>
                    \E i \in DOMAIN df_zip_unemp :
                        /\ df_zip_unemp[i].Zip_Code = df_final[f].Zip_Code
                        /\ Hundredths(df_zip_unemp[i].Year) = Hundredths(df_final[f].Year)
                        /\ df_zip_unemp[i].unemployment_rate = df_final[f].unemployment_rate
                        /\ FromCompleteYear(i)

============================================================================
